---- MODULE Spec2Model ----
(***************************************************************************)
(* BAMS: a three-level hierarchy of proof-of-work chains (department ->    *)
(* class -> student) kept by BlockchainService and judged by               *)
(* ValidationService.                                                      *)
(*                                                                         *)
(* SHA-256 is modelled as an ideal hash: a hash value carries the string   *)
(* it was computed from (so two hashes are equal iff the hashed strings    *)
(* are) and a prefix of HashWidth digits over an alphabet of HexBase       *)
(* symbols that is a deterministic function of the string.  Digit 0 stands *)
(* for the hex character '0'.  The literal string "0" is RootMarker.       *)
(* Sequences are 1-based: block index i of the code is chain[i + 1].       *)
(***************************************************************************)
EXTENDS Integers, Sequences, FiniteSets, TLC

VARIABLES departmentChains, classChains, studentChains, difficulty,
          storage, now, lastError, tampers, loaded, diskFault, report,
          flagged, miner, order, calls

vars == <<departmentChains, classChains, studentChains, difficulty,
          storage, now, lastError, tampers, loaded, diskFault, report,
          flagged, miner, order, calls>>

----------------------------------------------------------------------------
(* Bounds of the model *)

HashWidth == 4

HexBase == 2

MaxTampers == 1

MaxBlocks == 4

(* Program constants *)

DefaultDifficulty == 4

DeptPoWDifficulty == 4

ClassPoWDifficulty == 4

StudentPoWDifficulty == 4

DeptIds == {"d1", "d2"}

ClassIds == {"c1", "c2"}

StudentIds == {"s1"}

\* Values of the DIFFICULTY environment variable
Difficulties == {2, DefaultDifficulty}

Patches == {[name |-> "renamed"], [status |-> "active"]}

Dates == {"2024-11-16", "2024-11-17"}

AttendanceStatuses == {"Present", "Absent"}

----------------------------------------------------------------------------
(* Helpers *)

Range(s) == {s[i] : i \in DOMAIN s}


\* JavaScript object spread {...a, ...b}: the fields of b win
Spread(a, b) == [k \in (DOMAIN a) \cup (DOMAIN b) |->
                    IF k \in DOMAIN b THEN b[k] ELSE a[k]]

\* data.k || "": an absent or empty field reads as the empty string
OrEmpty(data, k) == IF k \in DOMAIN data THEN data[k] ELSE ""

\* A field copied from data: one that data lacks is undefined, and
\* JSON.stringify leaves an undefined field out
Copied(data, k) == [x \in {k} \cap DOMAIN data |-> data[x]]

\* String.prototype.substring(0, d) on the digit prefix
Substring(hex, d) == SubSeq(hex, 1, IF d < Len(hex) THEN d ELSE Len(hex))

\* Array(d + 1).join("0") and "0".repeat(d)
Target(d) == [i \in 1..d |-> 0]

\* String.prototype.startsWith
StartsWith(hex, t) == Len(hex) >= Len(t) /\ SubSeq(hex, 1, Len(t)) = t

\* The literal "0" that roots a department chain
RootMarker == [hex |-> <<0>>, pre |-> <<>>]

\* The empty string a child chain holds as parent hash before initialize()
EmptyHash == [hex |-> <<>>, pre |-> <<>>]

----------------------------------------------------------------------------
(* Block *)

RECURSIVE HexVal(_)
HexVal(s) == IF s = <<>> THEN 0
             ELSE HexVal(SubSeq(s, 1, Len(s) - 1)) * HexBase + s[Len(s)]

ToHex(n) == [i \in 1..HashWidth |-> (n \div (HexBase ^ (HashWidth - i))) % HexBase]

TypeCode(t) == CASE t = "department" -> 1
                 [] t = "class" -> 2
                 [] t = "student" -> 3
                 [] t = "update" -> 4
                 [] t = "delete" -> 5
                 [] t = "attendance" -> 6
                 [] OTHER -> 0

\* JSON.stringify(transactions) contributes every transaction field
RECURSIVE TxDigest(_)
TxDigest(txs) ==
    IF txs = <<>> THEN 0
    ELSE LET tx == Head(txs)
         IN TypeCode(tx.type) + tx.timestamp + Cardinality(DOMAIN tx.data)
            + TxDigest(Tail(txs))

\* Number to string: the decimal digits of a natural number
RECURSIVE Decimal(_)
Decimal(n) ==
    IF n < 10 THEN <<[digit |-> n]>>
    ELSE Decimal(n \div 10) \o <<[digit |-> n % 10]>>

\* The characters of a hash string: the root marker "0" is the digit 0, the
\* empty string has none, a digest is taken as one unit
Chars(h) ==
    IF h = RootMarker THEN <<[digit |-> 0]>>
    ELSE IF h = EmptyHash THEN <<>>
    ELSE <<[digest |-> h]>>

\* index + prev_hash + timestamp: joined without a separator
HeadString(b) == Decimal(b.index) \o Chars(b.prev_hash) \o Decimal(b.timestamp)

\* The string that is hashed ends with JSON.stringify(transactions), which
\* its brackets delimit, and the digits of nonce
HashedString(b) ==
    HeadString(b) \o <<[json |-> b.transactions]>> \o Decimal(b.nonce)

CharCode(c) ==
    IF "digit" \in DOMAIN c THEN c.digit + 1 ELSE HexVal(c.digest.hex) * 5 + 2

RECURSIVE HeadSum(_)
HeadSum(str) ==
    IF str = <<>> THEN 0
    ELSE HeadSum(SubSeq(str, 1, Len(str) - 1)) * 3 + CharCode(str[Len(str)])

\* The digest is a function of the hashed string alone: blocks whose fields
\* join to the same string have the same hash
calculateHash(b) ==
    LET seed == HeadSum(HeadString(b)) + TxDigest(b.transactions) + b.nonce * 7
    IN [hex |-> ToHex(seed % (HexBase ^ HashWidth)), pre |-> HashedString(b)]

NewBlock(index, timestamp, transactions, prev_hash) ==
    LET b == [index |-> index, timestamp |-> timestamp,
              transactions |-> transactions, prev_hash |-> prev_hash,
              nonce |-> 0, hash |-> RootMarker]
    IN [b EXCEPT !.hash = calculateHash(b)]

mineBlock_NoWork(b, d) == b

RECURSIVE mineBlock(_, _)
mineBlock(b, d) ==
    IF Substring(b.hash.hex, d) = Target(d) THEN b
    ELSE LET n == [b EXCEPT !.nonce = @ + 1]
         IN mineBlock([n EXCEPT !.hash = calculateHash(n)], d)

isValid_PrefixOnly(b) == b.hash.hex = calculateHash(b).hex

isValid(b) == b.hash = calculateHash(b)

BlockToJSON(b) == [index |-> b.index, timestamp |-> b.timestamp,
                   transactions |-> b.transactions, prev_hash |-> b.prev_hash,
                   nonce |-> b.nonce, hash |-> b.hash]

----------------------------------------------------------------------------
(* Blockchain: operators on an entity record c with fields chain, difficulty *)

\* The block createGenesisBlock builds, before it is mined
GenesisBlock(genesisData, parentHash, t) ==
    LET genesisTransaction == [type |-> "department", data |-> genesisData,
                               timestamp |-> t]
    IN NewBlock(0, t, <<genesisTransaction>>, parentHash)

createGenesisBlock(c, genesisData, parentHash, t) ==
    LET genesisBlock == GenesisBlock(genesisData, parentHash, t)
    IN [c EXCEPT !.chain = Append(@, mineBlock(genesisBlock, c.difficulty))]

getLatestBlock(c) == c.chain[Len(c.chain)]

addBlock_WrongIndex(c, newBlock) ==
    LET b == [newBlock EXCEPT !.index = Len(c.chain) + 1,
                              !.prev_hash = getLatestBlock(c).hash]
    IN [c EXCEPT !.chain = Append(@, mineBlock(b, c.difficulty))]

addBlock_Overwrite(c, newBlock) ==
    LET b == [newBlock EXCEPT !.index = Len(c.chain),
                              !.prev_hash = getLatestBlock(c).hash]
    IN [c EXCEPT !.chain = IF Len(@) >= 2
                           THEN Append(SubSeq(@, 1, Len(@) - 1),
                                       mineBlock(b, c.difficulty))
                           ELSE Append(@, mineBlock(b, c.difficulty))]

addBlock_Heal(c, newBlock) ==
    LET last == getLatestBlock(c)
        healed == IF isValid(last) THEN last
                  ELSE mineBlock([last EXCEPT !.hash = calculateHash(last)],
                                 c.difficulty)
        b == [newBlock EXCEPT !.index = Len(c.chain),
                              !.prev_hash = healed.hash]
    IN [c EXCEPT !.chain = Append([@ EXCEPT ![Len(c.chain)] = healed],
                                  mineBlock(b, c.difficulty))]

\* The block after addBlock has assigned its index and prev_hash: the hash
\* stays the one the constructor computed
Relinked(c, newBlock) ==
    [newBlock EXCEPT !.index = Len(c.chain),
                     !.prev_hash = getLatestBlock(c).hash]

addBlock(c, newBlock) ==
    LET b == Relinked(c, newBlock)
    IN [c EXCEPT !.chain = Append(@, mineBlock(b, c.difficulty))]

\* Index of the first block the loop rejects, or -1 when it runs to the end
RECURSIVE FirstInvalidFrom(_, _)
FirstInvalidFrom(c, i) ==
    IF i >= Len(c.chain) THEN -1
    ELSE LET currentBlock == c.chain[i + 1]
             previousBlock == c.chain[i]
         IN IF ~isValid(currentBlock) THEN i
            ELSE IF currentBlock.prev_hash # previousBlock.hash THEN i
            ELSE IF Substring(currentBlock.hash.hex, c.difficulty)
                        # Target(c.difficulty) THEN i
            ELSE FirstInvalidFrom(c, i + 1)

RECURSIVE FirstInvalidFrom_NoHashCheck(_, _)
FirstInvalidFrom_NoHashCheck(c, i) ==
    IF i >= Len(c.chain) THEN -1
    ELSE LET currentBlock == c.chain[i + 1]
             previousBlock == c.chain[i]
         IN IF currentBlock.prev_hash # previousBlock.hash THEN i
            ELSE IF Substring(currentBlock.hash.hex, c.difficulty)
                        # Target(c.difficulty) THEN i
            ELSE FirstInvalidFrom_NoHashCheck(c, i + 1)

isChainValid_NoHashCheck(c) == FirstInvalidFrom_NoHashCheck(c, 1) = -1

isChainValid(c) == FirstInvalidFrom(c, 1) = -1

getChainLength(c) == Len(c.chain)

ChainToJSON(c) == [i \in 1..Len(c.chain) |-> BlockToJSON(c.chain[i])]

----------------------------------------------------------------------------
(* DepartmentChain *)

NewDepartmentChain(departmentId, departmentName, d) ==
    [chain |-> <<>>, difficulty |-> d,
     departmentId |-> departmentId, departmentName |-> departmentName]

DepartmentInitialize_EmptyRoot(c, departmentData, t) ==
    LET dept == [id |-> c.departmentId, name |-> c.departmentName,
                 code |-> OrEmpty(departmentData, "code"),
                 description |-> OrEmpty(departmentData, "description"),
                 createdAt |-> t, status |-> "active"]
    IN createGenesisBlock(c, dept, EmptyHash, t)

\* The payload initialize() gives the genesis block
DepartmentInfo(c, departmentData, t) ==
    [id |-> c.departmentId, name |-> c.departmentName,
     code |-> OrEmpty(departmentData, "code"),
     description |-> OrEmpty(departmentData, "description"),
     createdAt |-> t, status |-> "active"]

DepartmentInitialize(c, departmentData, t) ==
    createGenesisBlock(c, DepartmentInfo(c, departmentData, t), RootMarker, t)

\* The block addDepartmentUpdate hands to addBlock
DepartmentUpdateBlock(c, updates, t) ==
    LET updateTransaction ==
            [type |-> "update",
             data |-> [departmentId |-> c.departmentId, updates |-> updates,
                       updatedAt |-> t],
             timestamp |-> t]
    IN NewBlock(Len(c.chain), t, <<updateTransaction>>, getLatestBlock(c).hash)

addDepartmentUpdate(c, updates, t) ==
    addBlock(c, DepartmentUpdateBlock(c, updates, t))

addDepartmentDeletion(c, t) ==
    LET deleteTransaction ==
            [type |-> "delete",
             data |-> [departmentId |-> c.departmentId, status |-> "deleted",
                       deletedAt |-> t],
             timestamp |-> t]
        newBlock == NewBlock(Len(c.chain), t, <<deleteTransaction>>,
                             getLatestBlock(c).hash)
    IN addBlock(c, newBlock)

\* The replay loop shared by the three getCurrentState methods
RECURSIVE Replay(_, _, _)
Replay(chain, i, state) ==
    IF i >= Len(chain) THEN state
    ELSE LET transaction == chain[i + 1].transactions[1]
         IN IF transaction.type = "update"
            THEN Replay(chain, i + 1, Spread(state, transaction.data.updates))
            ELSE IF transaction.type = "delete"
            THEN Replay(chain, i + 1, Spread(state, [status |-> "deleted"]))
            ELSE Replay(chain, i + 1, state)

RECURSIVE Replay_ToggleDelete(_, _, _)
Replay_ToggleDelete(chain, i, state) ==
    IF i >= Len(chain) THEN state
    ELSE LET transaction == chain[i + 1].transactions[1]
         IN IF transaction.type = "update"
            THEN Replay_ToggleDelete(chain, i + 1,
                                     Spread(state, transaction.data.updates))
            ELSE IF transaction.type = "delete"
            THEN Replay_ToggleDelete(chain, i + 1,
                     Spread(state, [status |-> IF state.status = "deleted"
                                               THEN "active" ELSE "deleted"]))
            ELSE Replay_ToggleDelete(chain, i + 1, state)

getCurrentState_ToggleDelete(c) ==
    Replay_ToggleDelete(c.chain, 1, c.chain[1].transactions[1].data)

RECURSIVE Replay_FirstWins(_, _, _)
Replay_FirstWins(chain, i, state) ==
    IF i >= Len(chain) THEN state
    ELSE LET transaction == chain[i + 1].transactions[1]
         IN IF transaction.type = "update"
            THEN Replay_FirstWins(chain, i + 1,
                                  Spread(transaction.data.updates, state))
            ELSE IF transaction.type = "delete"
            THEN Replay_FirstWins(chain, i + 1,
                                  Spread(state, [status |-> "deleted"]))
            ELSE Replay_FirstWins(chain, i + 1, state)

getCurrentState_FirstWins(c) ==
    Replay_FirstWins(c.chain, 1, c.chain[1].transactions[1].data)

getCurrentState(c) == Replay(c.chain, 1, c.chain[1].transactions[1].data)

DepartmentToJSON(c) ==
    [chain |-> ChainToJSON(c), difficulty |-> c.difficulty,
     departmentId |-> c.departmentId, departmentName |-> c.departmentName]

----------------------------------------------------------------------------
(* ClassChain *)

NewClassChain(classId, className, departmentId, d) ==
    [chain |-> <<>>, difficulty |-> d, classId |-> classId,
     className |-> className, departmentId |-> departmentId,
     parentDepartmentHash |-> EmptyHash]

ClassInitialize_RootGenesis(c, classData, parentDepartmentHash, t) ==
    LET classInfo == Spread(Spread(
                         [id |-> c.classId, name |-> c.className,
                          code |-> OrEmpty(classData, "code"),
                          departmentId |-> c.departmentId,
                          createdAt |-> t, status |-> "active"],
                         Copied(classData, "semester")),
                         Copied(classData, "year"))
    IN createGenesisBlock(
           [c EXCEPT !.parentDepartmentHash = parentDepartmentHash],
           classInfo, RootMarker, t)

ClassInitialize(c, classData, parentDepartmentHash, t) ==
    LET classInfo == Spread(Spread(
                         [id |-> c.classId, name |-> c.className,
                          code |-> OrEmpty(classData, "code"),
                          departmentId |-> c.departmentId,
                          createdAt |-> t, status |-> "active"],
                         Copied(classData, "semester")),
                         Copied(classData, "year"))
    IN createGenesisBlock(
           [c EXCEPT !.parentDepartmentHash = parentDepartmentHash],
           classInfo, parentDepartmentHash, t)

addClassUpdate(c, updates, t) ==
    LET updateTransaction ==
            [type |-> "update",
             data |-> [classId |-> c.classId, updates |-> updates,
                       updatedAt |-> t],
             timestamp |-> t]
        newBlock == NewBlock(Len(c.chain), t, <<updateTransaction>>,
                             getLatestBlock(c).hash)
    IN addBlock(c, newBlock)

addClassDeletion(c, t) ==
    LET deleteTransaction ==
            [type |-> "delete",
             data |-> [classId |-> c.classId, status |-> "deleted",
                       deletedAt |-> t],
             timestamp |-> t]
        newBlock == NewBlock(Len(c.chain), t, <<deleteTransaction>>,
                             getLatestBlock(c).hash)
    IN addBlock(c, newBlock)

ClassValidateParentLink_Current(c, currentParentHash) ==
    IF Len(c.chain) = 0 THEN FALSE
    ELSE IF c.chain[1].prev_hash # c.parentDepartmentHash THEN FALSE
    ELSE IF currentParentHash # c.parentDepartmentHash THEN FALSE
    ELSE TRUE

ClassValidateParentLink(c, currentParentHash) ==
    IF Len(c.chain) = 0 THEN FALSE
    ELSE IF c.chain[1].prev_hash # c.parentDepartmentHash THEN FALSE
    ELSE TRUE

ClassToJSON(c) ==
    [chain |-> ChainToJSON(c), difficulty |-> c.difficulty,
     classId |-> c.classId, className |-> c.className,
     departmentId |-> c.departmentId,
     parentDepartmentHash |-> c.parentDepartmentHash]

----------------------------------------------------------------------------
(* StudentChain *)

NewStudentChain(studentId, studentName, rollNumber, classId, departmentId, d) ==
    [chain |-> <<>>, difficulty |-> d, studentId |-> studentId,
     studentName |-> studentName, rollNumber |-> rollNumber,
     classId |-> classId, departmentId |-> departmentId,
     parentClassHash |-> EmptyHash]

StudentInitialize(c, studentData, parentClassHash, t) ==
    LET studentInfo == Spread(
                           [id |-> c.studentId, name |-> c.studentName,
                            rollNumber |-> c.rollNumber, classId |-> c.classId,
                            departmentId |-> c.departmentId,
                            createdAt |-> t, status |-> "active"],
                           Copied(studentData, "email"))
    IN createGenesisBlock([c EXCEPT !.parentClassHash = parentClassHash],
                          studentInfo, parentClassHash, t)

\* The block addAttendanceRecord builds, before addBlock takes it
AttendanceBlock(c, attendanceData, t) ==
    LET attendanceTransaction ==
            [type |-> "attendance",
             data |-> Spread(attendanceData, [recordedAt |-> t]),
             timestamp |-> t]
    IN NewBlock(Len(c.chain), t, <<attendanceTransaction>>,
                getLatestBlock(c).hash)

addAttendanceRecord(c, attendanceData, t) ==
    addBlock(c, AttendanceBlock(c, attendanceData, t))

addStudentUpdate(c, updates, t) ==
    LET updateTransaction ==
            [type |-> "update",
             data |-> [studentId |-> c.studentId, updates |-> updates,
                       updatedAt |-> t],
             timestamp |-> t]
        newBlock == NewBlock(Len(c.chain), t, <<updateTransaction>>,
                             getLatestBlock(c).hash)
    IN addBlock(c, newBlock)

\* The block addStudentDeletion builds, before addBlock takes it
StudentDeletionBlock(c, t) ==
    LET deleteTransaction ==
            [type |-> "delete",
             data |-> [studentId |-> c.studentId, status |-> "deleted",
                       deletedAt |-> t],
             timestamp |-> t]
    IN NewBlock(Len(c.chain), t, <<deleteTransaction>>,
                getLatestBlock(c).hash)

addStudentDeletion(c, t) == addBlock(c, StudentDeletionBlock(c, t))

RECURSIVE AttendanceFrom(_, _)
AttendanceFrom(chain, i) ==
    IF i >= Len(chain) THEN <<>>
    ELSE LET transaction == chain[i + 1].transactions[1]
         IN IF transaction.type = "attendance"
            THEN <<transaction.data>> \o AttendanceFrom(chain, i + 1)
            ELSE AttendanceFrom(chain, i + 1)

RECURSIVE AttendanceFrom_Newest(_, _)
AttendanceFrom_Newest(chain, i) ==
    IF i >= Len(chain) THEN <<>>
    ELSE LET transaction == chain[i + 1].transactions[1]
         IN IF transaction.type = "attendance"
            THEN AttendanceFrom_Newest(chain, i + 1) \o <<transaction.data>>
            ELSE AttendanceFrom_Newest(chain, i + 1)

getAttendanceHistory_Newest(c) == AttendanceFrom_Newest(c.chain, 1)

getAttendanceHistory(c) == AttendanceFrom(c.chain, 1)

\* null
Null == [null |-> TRUE]

getAttendanceByDate_Blind(c, date) == Null

\* The first attendance record of the date after the genesis block, or null
getAttendanceByDate(c, date) ==
    LET hits == {i \in 1..(Len(c.chain) - 1) :
                    /\ c.chain[i + 1].transactions[1].type = "attendance"
                    /\ c.chain[i + 1].transactions[1].data.date = date}
    IN IF hits = {} THEN Null
       ELSE LET i == CHOOSE x \in hits : \A y \in hits : x <= y
            IN c.chain[i + 1].transactions[1].data

StudentValidateParentLink(c, currentParentHash) ==
    IF Len(c.chain) = 0 THEN FALSE
    ELSE IF c.chain[1].prev_hash # c.parentClassHash THEN FALSE
    ELSE TRUE

StudentToJSON(c) ==
    [chain |-> ChainToJSON(c), difficulty |-> c.difficulty,
     studentId |-> c.studentId, studentName |-> c.studentName,
     rollNumber |-> c.rollNumber, classId |-> c.classId,
     departmentId |-> c.departmentId, parentClassHash |-> c.parentClassHash]

----------------------------------------------------------------------------
(* BlockchainService and StorageService *)

RECURSIVE BlocksIn(_, _)
BlocksIn(m, ids) ==
    IF ids = {} THEN 0
    ELSE LET id == CHOOSE x \in ids : TRUE
         IN Len(m[id].chain) + BlocksIn(m, ids \ {id})

TotalBlocks == BlocksIn(departmentChains, DOMAIN departmentChains)
               + BlocksIn(classChains, DOMAIN classChains)
               + BlocksIn(studentChains, DOMAIN studentChains)

\* The processes of a run mine at most MaxBlocks blocks between them, on top
\* of the blocks the first one started with: loaded is the number of blocks
\* in the maps that do not count
HasRoom == TotalBlocks < MaxBlocks + loaded

CanGrow(c) == Len(c.chain) >= 1 /\ HasRoom

\* Date.now() is read from the variable now; the requests of one run are
\* served within one reading of the clock.

\* order holds the keys of the three maps in insertion order.  Map.set: a
\* key the map has keeps its place, a new key goes last
Inserted(keys, m) ==
    IF DOMAIN m \subseteq Range(keys) THEN keys
    ELSE Append(keys, CHOOSE id \in DOMAIN m \ Range(keys) : TRUE)

Keys(depts, classes, students) ==
    [departments |-> Inserted(order.departments, depts),
     classes |-> Inserted(order.classes, classes),
     students |-> Inserted(order.students, students)]

NoKeys == [departments |-> <<>>, classes |-> <<>>, students |-> <<>>]

\* The three arrays saveAll() writes: Array.from(map.values()) mapped with
\* toJSON()
Snapshot(depts, classes, students) ==
    LET keys == Keys(depts, classes, students)
    IN [departments |-> [i \in DOMAIN keys.departments |->
                            DepartmentToJSON(depts[keys.departments[i]])],
        classes |-> [i \in DOMAIN keys.classes |->
                        ClassToJSON(classes[keys.classes[i]])],
        students |-> [i \in DOMAIN keys.students |->
                         StudentToJSON(students[keys.students[i]])]]

\* The files saveAll() would write from the maps as they are
InMemory == Snapshot(departmentChains, classChains, studentChains)

NameOf(id) == "name-" \o id

\* The three maps of BlockchainService
Registry ==
    [departments |-> departmentChains, classes |-> classChains,
     students |-> studentChains]

\* report is the result of the last request when it was a validation
NoReport == [kind |-> "none"]

\* diskFault is the file fs.writeFileSync throws on, if any, and whether the
\* failed write has cut the file short
NoFault == [file |-> "none", cut |-> FALSE]

\* miner is the call of Block.mineBlock in progress, if any
Idle == [pc |-> "idle"]

\* calls holds, for every client, the request it has sent and how far the
\* server has come with it
Clients == {"a", "b"}

NoCalls == [c \in Clients |-> Idle]

Init ==
    /\ departmentChains = <<>>
    /\ classChains = <<>>
    /\ studentChains = <<>>
    /\ difficulty \in Difficulties
    /\ order = NoKeys
    /\ storage = Snapshot(<<>>, <<>>, <<>>)
    /\ now = 0
    /\ lastError = "none"
    /\ tampers = 0
    /\ loaded = 0
    /\ diskFault = NoFault
    /\ report = NoReport
    /\ flagged = {}
    /\ miner = Idle
    /\ calls = NoCalls

Fail(msg) ==
    /\ lastError' = msg
    /\ report' = NoReport
    /\ UNCHANGED <<departmentChains, classChains, studentChains, difficulty,
                   storage, now, tampers, loaded, diskFault, flagged, miner, order, calls>>

\* The files of the snapshot in the order saveAll() writes them
Files == <<"departments.json", "classes.json", "students.json">>

\* A file whose write broke off after the file was emptied: text that
\* JSON.parse rejects
Truncated == <<[truncated |-> TRUE]>>

\* What a file holds after fs.writeFileSync has thrown: its old content when
\* the write was refused, a cut file when the write broke off
WriteFailed(old) == IF diskFault.cut THEN Truncated ELSE old

\* What the three files hold after saveAll(): writeFile() throws on the file
\* diskFault names, so the files before it are rewritten and the files after
\* it keep their old content
saveAll(depts, classes, students) ==
    LET snap == Snapshot(depts, classes, students)
    IN CASE diskFault.file = "none" -> snap
         [] diskFault.file = Files[1] ->
                [storage EXCEPT !.departments = WriteFailed(@)]
         [] diskFault.file = Files[2] ->
                [storage EXCEPT !.departments = snap.departments,
                                !.classes = WriteFailed(@)]
         [] diskFault.file = Files[3] ->
                [storage EXCEPT !.departments = snap.departments,
                                !.classes = snap.classes,
                                !.students = WriteFailed(@)]

\* The error a mutating operation ends with once saveAll() has run
SaveError == IF diskFault = NoFault THEN "none" ELSE "write failed"

CommitDepartments(depts) ==
    /\ departmentChains' = depts
    /\ order' = Keys(depts, classChains, studentChains)
    /\ storage' = saveAll(depts, classChains, studentChains)
    /\ lastError' = SaveError
    /\ report' = NoReport
    /\ UNCHANGED <<classChains, studentChains, difficulty, now, tampers,
                   loaded, diskFault, flagged, miner, calls>>

CommitClasses(classes) ==
    /\ classChains' = classes
    /\ order' = Keys(departmentChains, classes, studentChains)
    /\ storage' = saveAll(departmentChains, classes, studentChains)
    /\ lastError' = SaveError
    /\ report' = NoReport
    /\ UNCHANGED <<departmentChains, studentChains, difficulty, now, tampers,
                   loaded, diskFault, flagged, miner, calls>>

CommitStudents(students) ==
    /\ studentChains' = students
    /\ order' = Keys(departmentChains, classChains, students)
    /\ storage' = saveAll(departmentChains, classChains, students)
    /\ lastError' = SaveError
    /\ report' = NoReport
    /\ UNCHANGED <<departmentChains, classChains, difficulty, now, tampers,
                   loaded, diskFault, flagged, miner, calls>>

createDepartment_Overwrite(id, name, data) ==
    /\ HasRoom
    /\ LET chain == DepartmentInitialize(
                        NewDepartmentChain(id, name, difficulty), data, now)
       IN CommitDepartments((id :> chain) @@ departmentChains)

createDepartment(id, name, data) ==
    IF id \in DOMAIN departmentChains THEN Fail("already exists")
    ELSE /\ HasRoom
         /\ LET chain == DepartmentInitialize(
                             NewDepartmentChain(id, name, difficulty), data, now)
            IN CommitDepartments((id :> chain) @@ departmentChains)

updateDepartment(id, updates) ==
    IF id \notin DOMAIN departmentChains THEN Fail("not found")
    ELSE /\ CanGrow(departmentChains[id])
         /\ CommitDepartments([departmentChains EXCEPT
                ![id] = addDepartmentUpdate(@, updates, now)])

deleteDepartment(id) ==
    IF id \notin DOMAIN departmentChains THEN Fail("not found")
    ELSE /\ CanGrow(departmentChains[id])
         /\ CommitDepartments([departmentChains EXCEPT
                ![id] = addDepartmentDeletion(@, now)])

createClass_Orphan(id, name, departmentId, data) ==
    IF id \in DOMAIN classChains THEN Fail("already exists")
    ELSE /\ HasRoom
         /\ LET parentHash ==
                    IF departmentId \in DOMAIN departmentChains
                    THEN getLatestBlock(departmentChains[departmentId]).hash
                    ELSE RootMarker
                chain == ClassInitialize(
                             NewClassChain(id, name, departmentId, difficulty),
                             data, parentHash, now)
            IN CommitClasses((id :> chain) @@ classChains)

createClass(id, name, departmentId, data) ==
    IF id \in DOMAIN classChains THEN Fail("already exists")
    ELSE IF departmentId \notin DOMAIN departmentChains THEN Fail("not found")
    ELSE /\ HasRoom
         /\ LET parentHash == getLatestBlock(departmentChains[departmentId]).hash
                chain == ClassInitialize(
                             NewClassChain(id, name, departmentId, difficulty),
                             data, parentHash, now)
            IN CommitClasses((id :> chain) @@ classChains)

updateClass(id, updates) ==
    IF id \notin DOMAIN classChains THEN Fail("not found")
    ELSE /\ CanGrow(classChains[id])
         /\ CommitClasses([classChains EXCEPT
                ![id] = addClassUpdate(@, updates, now)])

deleteClass_Silent(id) ==
    IF id \notin DOMAIN classChains
    THEN /\ lastError' = "none"
         /\ report' = NoReport
         /\ UNCHANGED <<departmentChains, classChains, studentChains,
                        difficulty, storage, now, tampers, loaded, diskFault,
                        flagged, miner, order, calls>>
    ELSE /\ CanGrow(classChains[id])
         /\ CommitClasses([classChains EXCEPT ![id] = addClassDeletion(@, now)])

deleteClass(id) ==
    IF id \notin DOMAIN classChains THEN Fail("not found")
    ELSE /\ CanGrow(classChains[id])
         /\ CommitClasses([classChains EXCEPT ![id] = addClassDeletion(@, now)])

createStudent_TouchParent(id, name, rollNumber, classId, departmentId, data) ==
    IF id \in DOMAIN studentChains THEN Fail("already exists")
    ELSE IF classId \notin DOMAIN classChains THEN Fail("not found")
    ELSE /\ HasRoom
         /\ LET parentHash == getLatestBlock(classChains[classId]).hash
                chain == StudentInitialize(
                             NewStudentChain(id, name, rollNumber, classId,
                                             departmentId, difficulty),
                             data, parentHash, now)
            IN /\ studentChains' = (id :> chain) @@ studentChains
               /\ classChains' = [classChains EXCEPT
                      ![classId].parentDepartmentHash = parentHash]
               /\ order' = Keys(departmentChains, classChains',
                                 studentChains')
               /\ storage' = Snapshot(departmentChains, classChains',
                                      studentChains')
               /\ lastError' = "none"
               /\ report' = NoReport
               /\ UNCHANGED <<departmentChains, difficulty, now, tampers,
                              loaded, diskFault, flagged, miner, calls>>

createStudent(id, name, rollNumber, classId, departmentId, data) ==
    IF id \in DOMAIN studentChains THEN Fail("already exists")
    ELSE IF classId \notin DOMAIN classChains THEN Fail("not found")
    ELSE /\ HasRoom
         /\ LET parentHash == getLatestBlock(classChains[classId]).hash
                chain == StudentInitialize(
                             NewStudentChain(id, name, rollNumber, classId,
                                             departmentId, difficulty),
                             data, parentHash, now)
            IN CommitStudents((id :> chain) @@ studentChains)

updateStudent(id, updates) ==
    IF id \notin DOMAIN studentChains THEN Fail("not found")
    ELSE /\ CanGrow(studentChains[id])
         /\ CommitStudents([studentChains EXCEPT
                ![id] = addStudentUpdate(@, updates, now)])

deleteStudent(id) ==
    IF id \notin DOMAIN studentChains THEN Fail("not found")
    ELSE /\ CanGrow(studentChains[id])
         /\ CommitStudents([studentChains EXCEPT
                ![id] = addStudentDeletion(@, now)])

markAttendance_NoSave(studentId, attendanceData) ==
    IF studentId \notin DOMAIN studentChains THEN Fail("not found")
    ELSE /\ CanGrow(studentChains[studentId])
         /\ studentChains' = [studentChains EXCEPT
                ![studentId] = addAttendanceRecord(@, attendanceData, now)]
         /\ lastError' = "none"
         /\ report' = NoReport
         /\ UNCHANGED <<departmentChains, classChains, difficulty, storage, now,
                        tampers, loaded, diskFault, flagged, miner, order, calls>>

markAttendance(studentId, attendanceData) ==
    IF studentId \notin DOMAIN studentChains THEN Fail("not found")
    ELSE /\ CanGrow(studentChains[studentId])
         /\ CommitStudents([studentChains EXCEPT
                ![studentId] = addAttendanceRecord(@, attendanceData, now)])

\* The record the attendance handler builds for a student and a date
AttendanceInput(studentId, date, status) ==
    [studentId |-> studentId, date |-> date, status |-> status, markedAt |-> now]

DeptData == [code |-> "CODE", description |-> ""]

ClassData == [code |-> "CODE"]

StudentData == [email |-> "mail"]

RollNumbers == {"r1"}

\* One request to the registry, accepted or rejected
Next ==
    \/ \E id \in DeptIds : createDepartment(id, NameOf(id), DeptData)
    \/ \E id \in DeptIds, p \in Patches : updateDepartment(id, p)
    \/ \E id \in DeptIds : deleteDepartment(id)
    \/ \E id \in ClassIds, d \in DeptIds :
            createClass(id, NameOf(id), d, ClassData)
    \/ \E id \in ClassIds, p \in Patches : updateClass(id, p)
    \/ \E id \in ClassIds : deleteClass(id)
    \/ \E id \in StudentIds, r \in RollNumbers, c \in ClassIds, d \in DeptIds :
            createStudent(id, NameOf(id), r, c, d, StudentData)
    \/ \E id \in StudentIds, p \in Patches : updateStudent(id, p)
    \/ \E id \in StudentIds : deleteStudent(id)
    \/ \E id \in StudentIds, dt \in Dates, st \in AttendanceStatuses :
            markAttendance(id, AttendanceInput(id, dt, st))

Spec == Init /\ [][Next]_vars

----------------------------------------------------------------------------
(* ValidationService *)

NewResult == [isValid |-> TRUE, errors |-> <<>>, warnings |-> <<>>,
              details |-> <<>>]

Err_KeepVerdict(r, msg) == [r EXCEPT !.errors = Append(@, msg)]

\* result.isValid = false; result.errors.push(msg)
Err(r, msg) == [r EXCEPT !.isValid = FALSE, !.errors = Append(@, msg)]

Detail(r, d) == [r EXCEPT !.details = Spread(@, d)]

PoWMessage(i, suffix) ==
    "Block " \o ToString(i) \o " doesn't satisfy Proof of Work" \o suffix

\* The loop over every block, index 0 included, against a literal difficulty
RECURSIVE PoWLoop(_, _, _, _, _)
PoWLoop(r, chain, i, target, suffix) ==
    IF i >= Len(chain) THEN r
    ELSE IF ~StartsWith(chain[i + 1].hash.hex, target)
         THEN PoWLoop(Err(r, PoWMessage(i, suffix)), chain, i + 1, target, suffix)
         ELSE PoWLoop(r, chain, i + 1, target, suffix)

\* e.includes("Proof of Work")
IncludesProofOfWork(e) ==
    \E i \in 0..MaxBlocks : e \in {PoWMessage(i, ""), PoWMessage(i, " requirement")}

validateDepartmentChain(departmentId) ==
    IF departmentId \notin DOMAIN departmentChains
    THEN Err(NewResult, "Department chain not found")
    ELSE
    LET chain == departmentChains[departmentId]
        r1 == Detail(NewResult, [chainLength |-> getChainLength(chain)])
    IN IF getChainLength(chain) = 0 THEN Err(r1, "Chain is empty")
       ELSE
       LET genesisBlock == chain.chain[1]
           r2 == IF genesisBlock.prev_hash # RootMarker
                 THEN Err(r1, "Genesis block has invalid prev_hash")
                 ELSE Detail(r1, [genesisValid |-> TRUE])
           chainValid == isChainValid(chain)
           r3 == Detail(r2, [chainIntegrity |-> chainValid])
           r4 == IF ~chainValid
                 THEN Err(r3, "Chain integrity check failed - tampering detected")
                 ELSE r3
           r5 == PoWLoop(r4, chain.chain, 0, Target(DeptPoWDifficulty),
                         " requirement")
       IN IF Len(r5.errors) = 0 THEN Detail(r5, [proofOfWork |-> TRUE]) ELSE r5

validateClassChain_NoCascade(classId) ==
    IF classId \notin DOMAIN classChains
    THEN Err(NewResult, "Class chain not found")
    ELSE
    LET chain == classChains[classId]
        r1 == Detail(NewResult, [chainLength |-> getChainLength(chain)])
    IN IF getChainLength(chain) = 0 THEN Err(r1, "Chain is empty")
       ELSE
       LET chainValid == isChainValid(chain)
           r2 == Detail(r1, [chainIntegrity |-> chainValid])
           r3 == IF ~chainValid THEN Err(r2, "Chain integrity check failed")
                 ELSE r2
       IN IF chain.departmentId \notin DOMAIN departmentChains
          THEN Err(r3, "Parent department not found")
          ELSE
          LET parentDept == departmentChains[chain.departmentId]
          IN IF Len(parentDept.chain) = 0 THEN Err(r3, "Validation error")
             ELSE
             LET parentCurrentHash == getLatestBlock(parentDept).hash
                 parentLinkValid ==
                     ClassValidateParentLink(chain, parentCurrentHash)
                 r4 == Detail(r3, [parentLink |-> parentLinkValid])
                 r5 == IF ~parentLinkValid
                       THEN Err(r4, "Parent link validation failed - class not properly linked to department")
                       ELSE r4
                 r7 == PoWLoop(r5, chain.chain, 0, Target(ClassPoWDifficulty), "")
             IN IF \A k \in DOMAIN r7.errors : ~IncludesProofOfWork(r7.errors[k])
                THEN Detail(r7, [proofOfWork |-> TRUE]) ELSE r7

validateClassChain(classId) ==
    IF classId \notin DOMAIN classChains
    THEN Err(NewResult, "Class chain not found")
    ELSE
    LET chain == classChains[classId]
        r1 == Detail(NewResult, [chainLength |-> getChainLength(chain)])
    IN IF getChainLength(chain) = 0 THEN Err(r1, "Chain is empty")
       ELSE
       LET chainValid == isChainValid(chain)
           r2 == Detail(r1, [chainIntegrity |-> chainValid])
           r3 == IF ~chainValid THEN Err(r2, "Chain integrity check failed")
                 ELSE r2
       IN IF chain.departmentId \notin DOMAIN departmentChains
          THEN Err(r3, "Parent department not found")
          ELSE
          LET parentDept == departmentChains[chain.departmentId]
          IN IF Len(parentDept.chain) = 0 THEN Err(r3, "Validation error")
             ELSE
             LET parentCurrentHash == getLatestBlock(parentDept).hash
                 parentLinkValid ==
                     ClassValidateParentLink(chain, parentCurrentHash)
                 r4 == Detail(r3, [parentLink |-> parentLinkValid])
                 r5 == IF ~parentLinkValid
                       THEN Err(r4, "Parent link validation failed - class not properly linked to department")
                       ELSE r4
                 parentValidation == validateDepartmentChain(chain.departmentId)
                 r6 == IF ~parentValidation.isValid
                       THEN [Err(r5, "Parent department chain is invalid")
                               EXCEPT !.warnings = Append(@,
                                 "Class chain depends on invalid parent - hierarchy broken")]
                       ELSE r5
                 r7 == PoWLoop(r6, chain.chain, 0, Target(ClassPoWDifficulty), "")
             IN IF \A k \in DOMAIN r7.errors : ~IncludesProofOfWork(r7.errors[k])
                THEN Detail(r7, [proofOfWork |-> TRUE]) ELSE r7

AttendanceWarning(n) == ToString(n) \o " attendance records found"

validateStudentChain_NoCascade(studentId) ==
    IF studentId \notin DOMAIN studentChains
    THEN Err(NewResult, "Student chain not found")
    ELSE
    LET chain == studentChains[studentId]
        r1 == Detail(NewResult, [chainLength |-> getChainLength(chain)])
    IN IF getChainLength(chain) = 0 THEN Err(r1, "Chain is empty")
       ELSE
       LET chainValid == isChainValid(chain)
           r2 == Detail(r1, [chainIntegrity |-> chainValid])
           r3 == IF ~chainValid THEN Err(r2, "Chain integrity check failed")
                 ELSE r2
       IN IF chain.classId \notin DOMAIN classChains
          THEN Err(r3, "Parent class not found")
          ELSE
          LET parentClass == classChains[chain.classId]
          IN IF Len(parentClass.chain) = 0 THEN Err(r3, "Validation error")
             ELSE
             LET parentCurrentHash == getLatestBlock(parentClass).hash
                 parentLinkValid ==
                     StudentValidateParentLink(chain, parentCurrentHash)
                 r4 == Detail(r3, [parentLink |-> parentLinkValid])
                 r5 == IF ~parentLinkValid
                       THEN Err(r4, "Parent link validation failed - student not properly linked to class")
                       ELSE r4
                 r7 == PoWLoop(r5, chain.chain, 0, Target(StudentPoWDifficulty), "")
                 r8 == IF \A k \in DOMAIN r7.errors :
                              ~IncludesProofOfWork(r7.errors[k])
                       THEN Detail(r7, [proofOfWork |-> TRUE]) ELSE r7
             IN [r8 EXCEPT !.warnings = Append(@,
                     AttendanceWarning(Len(getAttendanceHistory(chain))))]

validateStudentChain(studentId) ==
    IF studentId \notin DOMAIN studentChains
    THEN Err(NewResult, "Student chain not found")
    ELSE
    LET chain == studentChains[studentId]
        r1 == Detail(NewResult, [chainLength |-> getChainLength(chain)])
    IN IF getChainLength(chain) = 0 THEN Err(r1, "Chain is empty")
       ELSE
       LET chainValid == isChainValid(chain)
           r2 == Detail(r1, [chainIntegrity |-> chainValid])
           r3 == IF ~chainValid THEN Err(r2, "Chain integrity check failed")
                 ELSE r2
       IN IF chain.classId \notin DOMAIN classChains
          THEN Err(r3, "Parent class not found")
          ELSE
          LET parentClass == classChains[chain.classId]
          IN IF Len(parentClass.chain) = 0 THEN Err(r3, "Validation error")
             ELSE
             LET parentCurrentHash == getLatestBlock(parentClass).hash
                 parentLinkValid ==
                     StudentValidateParentLink(chain, parentCurrentHash)
                 r4 == Detail(r3, [parentLink |-> parentLinkValid])
                 r5 == IF ~parentLinkValid
                       THEN Err(r4, "Parent link validation failed - student not properly linked to class")
                       ELSE r4
                 classValidation == validateClassChain(chain.classId)
                 r6 == IF ~classValidation.isValid
                       THEN [Err(r5, "Parent class chain is invalid")
                               EXCEPT !.warnings = Append(@,
                                 "Student chain depends on invalid parent - hierarchy broken")]
                       ELSE r5
                 r7 == PoWLoop(r6, chain.chain, 0, Target(StudentPoWDifficulty), "")
                 r8 == IF \A k \in DOMAIN r7.errors :
                              ~IncludesProofOfWork(r7.errors[k])
                       THEN Detail(r7, [proofOfWork |-> TRUE]) ELSE r7
             IN [r8 EXCEPT !.warnings = Append(@,
                     AttendanceWarning(Len(getAttendanceHistory(chain))))]

ValidateEntity(kind, id) ==
    CASE kind = "department" -> validateDepartmentChain(id)
      [] kind = "class" -> validateClassChain(id)
      [] OTHER -> validateStudentChain(id)

\* The body of a loop of validateFullSystem: push the validation, then count
\* it as valid or list the chain's id as invalid
LevelStep_LastWins(acc, id, validation) ==
    LET pushed == [acc EXCEPT !.details = Append(@, validation)]
    IN IF validation.isValid
       THEN [pushed EXCEPT !.isValid = TRUE, !.valid = @ + 1]
       ELSE [pushed EXCEPT !.isValid = FALSE, !.invalid = Append(@, id)]

LevelStep(acc, id, validation) ==
    LET pushed == [acc EXCEPT !.details = Append(@, validation)]
    IN IF validation.isValid
       THEN [pushed EXCEPT !.valid = @ + 1]
       ELSE [pushed EXCEPT !.isValid = FALSE, !.invalid = Append(@, id)]

\* One of the three loops of validateFullSystem over the chains of a level;
\* validations[k] is the result of validating ids[k]
RECURSIVE LevelLoop(_, _, _, _)
LevelLoop(ids, validations, k, acc) ==
    IF k > Len(ids) THEN acc
    ELSE LevelLoop(ids, validations, k + 1,
                   LevelStep(acc, ids[k], validations[k]))

LevelResult(ids, validations) ==
    LevelLoop(ids, validations, 1,
              [isValid |-> TRUE, valid |-> 0, invalid |-> <<>>, details |-> <<>>])

\* for (const dept of departments), and the loops over the classes and the
\* students: each level has its own validator
DepartmentLevel ==
    LevelResult(order.departments,
                [k \in 1..Len(order.departments) |->
                    validateDepartmentChain(order.departments[k])])

ClassLevel ==
    LevelResult(order.classes,
                [k \in 1..Len(order.classes) |->
                    validateClassChain(order.classes[k])])

StudentLevel ==
    LevelResult(order.students,
                [k \in 1..Len(order.students) |->
                    validateStudentChain(order.students[k])])

\* The result object validateFullSystem returns, from its three loops
SystemReport(depts, classes, students) ==
    [isValid |-> depts.isValid /\ classes.isValid /\ students.isValid,
     summary |-> [totalDepartments |-> Cardinality(DOMAIN departmentChains),
                  validDepartments |-> depts.valid,
                  totalClasses |-> Cardinality(DOMAIN classChains),
                  validClasses |-> classes.valid,
                  totalStudents |-> Cardinality(DOMAIN studentChains),
                  validStudents |-> students.valid],
     invalidEntities |-> [departments |-> depts.invalid,
                          classes |-> classes.invalid,
                          students |-> students.invalid],
     details |-> depts.details \o classes.details \o students.details]

validateFullSystem_DepartmentsOnly ==
    SystemReport(DepartmentLevel, [ClassLevel EXCEPT !.isValid = TRUE],
                 [StudentLevel EXCEPT !.isValid = TRUE])

validateFullSystem ==
    SystemReport(DepartmentLevel, ClassLevel, StudentLevel)

----------------------------------------------------------------------------
(* Tampering: writes to the public fields of a stored Block that bypass the *)
(* registry.  Nothing is saved.                                            *)

\* block.transactions[0].data.tampered = true
TamperBlock(b) ==
    [b EXCEPT !.transactions[1].data = Spread(@, [tampered |-> TRUE])]

\* The same write followed by recomputing and re-mining the block's hash
ForgeBlock(b, d) ==
    LET t == TamperBlock(b)
    IN mineBlock([t EXCEPT !.hash = calculateHash(t)], d)

Kinds == {"department", "class", "student"}

ChainsOf(entityType) ==
    CASE entityType = "department" -> departmentChains
      [] entityType = "class" -> classChains
      [] entityType = "student" -> studentChains

\* Replace block index i of one chain in memory
WriteBlock(entityType, entityId, i, b) ==
    /\ departmentChains' = IF entityType = "department"
          THEN [departmentChains EXCEPT ![entityId].chain[i + 1] = b]
          ELSE departmentChains
    /\ classChains' = IF entityType = "class"
          THEN [classChains EXCEPT ![entityId].chain[i + 1] = b]
          ELSE classChains
    /\ studentChains' = IF entityType = "student"
          THEN [studentChains EXCEPT ![entityId].chain[i + 1] = b]
          ELSE studentChains
    /\ tampers' = tampers + 1
    /\ report' = NoReport
    /\ flagged' = {}
    /\ UNCHANGED <<difficulty, storage, now, lastError, loaded, diskFault, miner, order, calls>>

simulateTampering(entityType, entityId) ==
    /\ tampers < MaxTampers
    /\ IF entityId \notin DOMAIN ChainsOf(entityType) THEN UNCHANGED vars
       ELSE LET chain == ChainsOf(entityType)[entityId]
            IN IF getChainLength(chain) > 1
               THEN WriteBlock(entityType, entityId, 1,
                               TamperBlock(chain.chain[2]))
               ELSE UNCHANGED vars

\* In-place corruption of any block, genesis included, without re-mining
CorruptBlock(entityType, entityId, i) ==
    /\ tampers < MaxTampers
    /\ entityId \in DOMAIN ChainsOf(entityType)
    /\ LET chain == ChainsOf(entityType)[entityId]
       IN /\ i < getChainLength(chain)
          /\ WriteBlock(entityType, entityId, i, TamperBlock(chain.chain[i + 1]))

\* Retroactive rewrite of a block that is re-mined so it is valid on its own
RemineBlock(entityType, entityId, i) ==
    /\ tampers < MaxTampers
    /\ entityId \in DOMAIN ChainsOf(entityType)
    /\ LET chain == ChainsOf(entityType)[entityId]
       IN /\ i < getChainLength(chain)
          /\ WriteBlock(entityType, entityId, i,
                        ForgeBlock(chain.chain[i + 1], chain.difficulty))

\* The genesis block's prev_hash overwritten in place, hash left as stored
RelinkGenesis(entityType, entityId) ==
    /\ tampers < MaxTampers
    /\ entityId \in DOMAIN ChainsOf(entityType)
    /\ LET chain == ChainsOf(entityType)[entityId]
       IN /\ 0 < getChainLength(chain)
          /\ WriteBlock(entityType, entityId, 0,
                        [chain.chain[1] EXCEPT !.prev_hash = EmptyHash])

\* The registry the tampering runs work on: one chain per level
AuditDeptIds == {"d1"}

AuditClassIds == {"c1"}

AuditStudentIds == {"s1"}

AuditPatches == {[status |-> "active"]}

AuditDates == {"2024-11-16"}

AuditStatuses == {"Present"}

AuditIds == AuditDeptIds \cup AuditClassIds \cup AuditStudentIds

\* A rejected request changes no chain, so the tampering runs issue the
\* requests the registry accepts: creates of absent ids, the rest on present ids.
\* Chains grow by update blocks and, for students, attendance blocks: the
\* integrity checks read a block's hash, link and index, never the kind of
\* its payload.
NextTamper ==
    \/ \E id \in AuditDeptIds \ DOMAIN departmentChains :
            createDepartment(id, NameOf(id), DeptData)
    \/ \E id \in AuditDeptIds \cap DOMAIN departmentChains, p \in AuditPatches :
            updateDepartment(id, p)
    \/ \E id \in AuditClassIds \ DOMAIN classChains,
          d \in AuditDeptIds \cap DOMAIN departmentChains :
            createClass(id, NameOf(id), d, ClassData)
    \/ \E id \in AuditClassIds \cap DOMAIN classChains, p \in AuditPatches :
            updateClass(id, p)
    \/ \E id \in AuditStudentIds \ DOMAIN studentChains, r \in RollNumbers,
          c \in AuditClassIds \cap DOMAIN classChains, d \in AuditDeptIds :
            createStudent(id, NameOf(id), r, c, d, StudentData)
    \/ \E id \in AuditStudentIds \cap DOMAIN studentChains,
          dt \in AuditDates, st \in AuditStatuses :
            markAttendance(id, AttendanceInput(id, dt, st))
    \/ \E k \in Kinds, id \in AuditIds : simulateTampering(k, id)
    \/ \E k \in Kinds, id \in AuditIds, i \in 0..(MaxBlocks - 1) :
            CorruptBlock(k, id, i)
    \/ \E k \in Kinds, id \in AuditIds, i \in 0..(MaxBlocks - 1) :
            RemineBlock(k, id, i)
    \/ \E k \in Kinds, id \in AuditIds : RelinkGenesis(k, id)

SpecTamper == Init /\ [][NextTamper]_vars

----------------------------------------------------------------------------
(* A registry that starts from a persisted hierarchy: one department, one  *)
(* class under it and one student under the class, each chain holding its  *)
(* genesis block, as createDepartment, createClass and createStudent leave *)
(* them.  The run then works on the student chain.                         *)

SeedDepartments(d) ==
    [id \in AuditDeptIds |->
        DepartmentInitialize(NewDepartmentChain(id, NameOf(id), d), DeptData, 0)]

SeedClasses(d) ==
    [id \in AuditClassIds |->
        LET dept == CHOOSE x \in AuditDeptIds : TRUE
        IN ClassInitialize(NewClassChain(id, NameOf(id), dept, d), ClassData,
                           getLatestBlock(SeedDepartments(d)[dept]).hash, 0)]

SeedStudents(d) ==
    [id \in AuditStudentIds |->
        LET dept == CHOOSE x \in AuditDeptIds : TRUE
            class == CHOOSE x \in AuditClassIds : TRUE
            roll == CHOOSE x \in RollNumbers : TRUE
        IN StudentInitialize(
               NewStudentChain(id, NameOf(id), roll, class, dept, d),
               StudentData, getLatestBlock(SeedClasses(d)[class]).hash, 0)]

\* The seeds in the order they were created
SeedKeys == [departments |-> <<"d1">>, classes |-> <<"c1">>,
             students |-> <<"s1">>]

InitLedger ==
    /\ difficulty \in Difficulties
    /\ order = SeedKeys
    /\ departmentChains = SeedDepartments(difficulty)
    /\ classChains = SeedClasses(difficulty)
    /\ studentChains = SeedStudents(difficulty)
    /\ storage = Snapshot(departmentChains, classChains, studentChains)
    /\ now = 0
    /\ lastError = "none"
    /\ tampers = 0
    /\ loaded = TotalBlocks
    /\ diskFault = NoFault
    /\ report = NoReport
    /\ flagged = {}
    /\ miner = Idle
    /\ calls = NoCalls

NextLedger ==
    \/ \E id \in AuditStudentIds, p \in Patches : updateStudent(id, p)
    \/ \E id \in AuditStudentIds : deleteStudent(id)
    \/ \E id \in AuditStudentIds, dt \in Dates, st \in AttendanceStatuses :
            markAttendance(id, AttendanceInput(id, dt, st))

SpecLedger == InitLedger /\ [][NextLedger]_vars

----------------------------------------------------------------------------
(* A registry whose files can refuse a write and whose server process can  *)
(* be started again on the files the previous process left.                *)

BlockFromJSON_Remade(data) ==
    NewBlock(data.index, data.timestamp, data.transactions, data.prev_hash)

BlockFromJSON(data) ==
    [NewBlock(data.index, data.timestamp, data.transactions, data.prev_hash)
        EXCEPT !.nonce = data.nonce, !.hash = data.hash]

ChainFromJSON(chain) == [i \in 1..Len(chain) |-> BlockFromJSON(chain[i])]

DepartmentFromJSON(data) ==
    [NewDepartmentChain(data.departmentId, data.departmentName, data.difficulty)
        EXCEPT !.chain = ChainFromJSON(data.chain)]

ClassFromJSON(data) ==
    [NewClassChain(data.classId, data.className, data.departmentId,
                   data.difficulty)
        EXCEPT !.parentDepartmentHash = data.parentDepartmentHash,
               !.chain = ChainFromJSON(data.chain)]

StudentFromJSON(data) ==
    [NewStudentChain(data.studentId, data.studentName, data.rollNumber,
                     data.classId, data.departmentId, data.difficulty)
        EXCEPT !.parentClassHash = data.parentClassHash,
               !.chain = ChainFromJSON(data.chain)]

\* readFile(): a file JSON.parse rejects reads as the empty array
readFile(file) == IF file = Truncated THEN <<>> ELSE file

\* The entries of the array of a file by the key initialize() sets them under
Loaded(file, key) ==
    LET data == readFile(file)
    IN [id \in {data[i][key] : i \in DOMAIN data} |->
           data[CHOOSE i \in DOMAIN data : data[i][key] = id]]

\* The keys of that map in the order forEach sets them
LoadedKeys(file, key) ==
    LET data == readFile(file)
    IN [i \in DOMAIN data |-> data[i][key]]

\* What initialize() builds from the three files
Reloaded ==
    LET depts == Loaded(storage.departments, "departmentId")
        classes == Loaded(storage.classes, "classId")
        students == Loaded(storage.students, "studentId")
    IN [departments |-> [id \in DOMAIN depts |->
                            DepartmentFromJSON(depts[id])],
        classes |-> [id \in DOMAIN classes |-> ClassFromJSON(classes[id])],
        students |-> [id \in DOMAIN students |->
                         StudentFromJSON(students[id])]]

\* The number of blocks in the chains of the first k entries of an array
RECURSIVE BlocksOf(_, _)
BlocksOf(data, k) ==
    IF k = 0 THEN 0 ELSE BlocksOf(data, k - 1) + Len(data[k].chain)

\* The number of blocks initialize() loads
ReloadedBlocks ==
    LET depts == readFile(storage.departments)
        classes == readFile(storage.classes)
        students == readFile(storage.students)
    IN BlocksOf(depts, Len(depts)) + BlocksOf(classes, Len(classes))
       + BlocksOf(students, Len(students))

FileKeys ==
    [departments |-> LoadedKeys(storage.departments, "departmentId"),
     classes |-> LoadedKeys(storage.classes, "classId"),
     students |-> LoadedKeys(storage.students, "studentId")]

\* A new server process: the constructor reads DIFFICULTY (d) and
\* initialize() fills the empty maps from the three files
initialize(d) ==
    /\ difficulty' = d
    /\ departmentChains' = Reloaded.departments
    /\ classChains' = Reloaded.classes
    /\ studentChains' = Reloaded.students
    /\ order' = FileKeys
    /\ loaded' = loaded + ReloadedBlocks - TotalBlocks
    /\ lastError' = "none"
    /\ report' = NoReport
    /\ flagged' = {}
    /\ UNCHANGED <<storage, now, tampers, diskFault, miner, calls>>

\* The environment: fs.writeFileSync starts to throw on one file, before it
\* has touched the file or after it has emptied it
DiskFault(file, cut) ==
    /\ diskFault = NoFault
    /\ diskFault' = [file |-> file, cut |-> cut]
    /\ UNCHANGED <<departmentChains, classChains, studentChains, difficulty,
                   storage, now, lastError, tampers, loaded, report, flagged, miner, order, calls>>

\* The environment: the file can be written again
DiskRepair ==
    /\ diskFault # NoFault
    /\ diskFault' = NoFault
    /\ UNCHANGED <<departmentChains, classChains, studentChains, difficulty,
                   storage, now, lastError, tampers, loaded, report, flagged, miner, order, calls>>

\* StorageService.clearAllData(): the three files are overwritten with the
\* empty array, one after the other.  No handler and no service method calls
\* it, so it is a step of no specification here
clearAllData ==
    /\ storage' =
          CASE diskFault.file = "none" ->
                 [departments |-> <<>>, classes |-> <<>>, students |-> <<>>]
            [] diskFault.file = Files[1] ->
                 [storage EXCEPT !.departments = WriteFailed(@)]
            [] diskFault.file = Files[2] ->
                 [storage EXCEPT !.departments = <<>>,
                                 !.classes = WriteFailed(@)]
            [] diskFault.file = Files[3] ->
                 [storage EXCEPT !.departments = <<>>, !.classes = <<>>,
                                 !.students = WriteFailed(@)]
    /\ lastError' = SaveError
    /\ report' = NoReport
    /\ UNCHANGED <<departmentChains, classChains, studentChains, difficulty,
                   now, tampers, loaded, diskFault, flagged, miner, order, calls>>

\* The files whose write is let break off part-way: the first one saveAll()
\* writes
CutFiles == {"departments.json"}

\* Requests the registry accepts, on one chain per level, with the disk
\* failing and recovering and the process restarting in between
NextStorage ==
    \/ \E id \in AuditDeptIds \ DOMAIN departmentChains :
            createDepartment(id, NameOf(id), DeptData)
    \/ \E id \in AuditDeptIds \cap DOMAIN departmentChains, p \in AuditPatches :
            updateDepartment(id, p)
    \/ \E id \in AuditClassIds \ DOMAIN classChains,
          d \in AuditDeptIds \cap DOMAIN departmentChains :
            createClass(id, NameOf(id), d, ClassData)
    \/ \E id \in AuditClassIds \cap DOMAIN classChains : deleteClass(id)
    \/ \E id \in AuditStudentIds \ DOMAIN studentChains, r \in RollNumbers,
          c \in AuditClassIds \cap DOMAIN classChains, d \in AuditDeptIds :
            createStudent(id, NameOf(id), r, c, d, StudentData)
    \/ \E id \in AuditStudentIds \cap DOMAIN studentChains,
          dt \in AuditDates, st \in AuditStatuses :
            markAttendance(id, AttendanceInput(id, dt, st))
    \/ \E i \in DOMAIN Files : DiskFault(Files[i], FALSE)
    \/ \E file \in CutFiles : DiskFault(file, TRUE)
    \/ DiskRepair
    \/ \E d \in Difficulties : initialize(d)

SpecStorage == Init /\ [][NextStorage]_vars

----------------------------------------------------------------------------
(* The attendance endpoint: POST /api/attendance/mark.  The handler has no  *)
(* await on its path, so one request is one uninterrupted run.             *)

\* new Date().getFullYear() and formatDate() read the calendar, which the
\* requests of a run share
CurrentYear == 2026

Today == "2026-10-29"

\* isValidDate(): the YYYY-MM-DD strings that parse to a date
isValidDate(dateString) == dateString \in Dates \cup {Today}

\* date ? date : formatDate(); a request without a date has date ""
attendanceDate(date) == IF date = "" THEN Today ELSE date

RequestDates == Dates \cup {"16/11/2024", "", Today}

RequestStatuses == AuditStatuses \cup {"Late"}

RequestStudentIds == AuditStudentIds \cup {"s9"}

\* The checks of the handler in their order: the response that refuses the
\* request, or "none" when every check passes
AttendanceRefusal(studentId, status, date) ==
    IF studentId = "" \/ status = "" THEN "400 required"
    ELSE IF status \notin {"Present", "Absent", "Leave"} THEN "400 status"
    ELSE IF studentId \notin DOMAIN studentChains THEN "404 student"
    ELSE
    LET studentChain == studentChains[studentId]
        studentState == getCurrentState(studentChain)
    IN IF "status" \in DOMAIN studentState /\ studentState.status = "deleted"
       THEN "400 deleted"
       ELSE IF ~isValidDate(attendanceDate(date)) THEN "400 date"
       ELSE IF getAttendanceByDate(studentChain, attendanceDate(date)) # Null
       THEN "400 duplicate"
       ELSE "none"

\* The attendanceRecord the handler hands to blockchainService.markAttendance
AttendanceRecord(studentChain, status, date) ==
    [studentId |-> studentChain.studentId,
     studentName |-> studentChain.studentName,
     rollNumber |-> studentChain.rollNumber,
     classId |-> studentChain.classId,
     departmentId |-> studentChain.departmentId,
     date |-> attendanceDate(date), status |-> status,
     markedAt |-> now]

markAttendanceRequest(studentId, status, date) ==
    IF AttendanceRefusal(studentId, status, date) # "none"
    THEN Fail(AttendanceRefusal(studentId, status, date))
    ELSE markAttendance(studentId,
             AttendanceRecord(studentChains[studentId], status, date))

----------------------------------------------------------------------------
(* Requests of several clients on one server process.  A request waits in  *)
(* the event queue until the stack is empty; its handler then runs its     *)
(* statements in order and gives the stack up at an await or when it       *)
(* returns.  calls[c].pc is the statement the handler of client c has      *)
(* reached.                                                                *)

NoBody == [k \in {} |-> ""]

\* The requests a client can send: attendance for the student with a date
\* and without one, the deletion of the student, the creation and the update
\* of a second department
ServeRequests ==
    {[op |-> "markAttendance", id |-> "s1",
      body |-> [status |-> "Present", date |-> dt]] : dt \in AuditDates \cup {""}}
    \cup {[op |-> "deleteStudent", id |-> "s1", body |-> NoBody],
          [op |-> "createDepartment", id |-> "d2", body |-> DeptData],
          [op |-> "updateDepartment", id |-> "d2", body |-> [status |-> "active"]]}

\* The checks a request starts with: the response that refuses it, or "none"
Refusal(req) ==
    CASE req.op = "markAttendance" ->
            AttendanceRefusal(req.id, req.body.status, req.body.date)
      [] req.op = "deleteStudent" ->
            IF req.id \notin DOMAIN studentChains THEN "not found" ELSE "none"
      [] req.op = "createDepartment" ->
            IF req.id \in DOMAIN departmentChains THEN "already exists"
            ELSE "none"
      [] req.op = "updateDepartment" ->
            IF req.id \notin DOMAIN departmentChains THEN "not found"
            ELSE "none"

\* The block the request constructs, from the chain as it is then
Constructed(req) ==
    CASE req.op = "markAttendance" ->
            AttendanceBlock(studentChains[req.id],
                AttendanceRecord(studentChains[req.id], req.body.status,
                                 req.body.date), now)
      [] req.op = "deleteStudent" ->
            StudentDeletionBlock(studentChains[req.id], now)
      [] req.op = "createDepartment" ->
            LET c == NewDepartmentChain(req.id, NameOf(req.id), difficulty)
            IN GenesisBlock(DepartmentInfo(c, req.body, now), RootMarker, now)
      [] req.op = "updateDepartment" ->
            DepartmentUpdateBlock(departmentChains[req.id], req.body, now)

\* addBlock up to the end of mineBlock, or createGenesisBlock's mineBlock
MinedFor(req, block) ==
    CASE req.op = "createDepartment" -> mineBlock(block, difficulty)
      [] req.op = "updateDepartment" ->
            mineBlock(Relinked(departmentChains[req.id], block),
                      departmentChains[req.id].difficulty)
      [] OTHER ->
            mineBlock(Relinked(studentChains[req.id], block),
                      studentChains[req.id].difficulty)

\* this.chain.push(newBlock) and, for a new chain, Map.set
Pushed(req, block) ==
    CASE req.op = "createDepartment" ->
            [Registry EXCEPT !.departments =
                (req.id :> [NewDepartmentChain(req.id, NameOf(req.id),
                                               difficulty)
                               EXCEPT !.chain = <<block>>]) @@ @]
      [] req.op = "updateDepartment" ->
            [Registry EXCEPT !.departments[req.id].chain = Append(@, block)]
      [] OTHER ->
            [Registry EXCEPT !.students[req.id].chain = Append(@, block)]

\* The registry after the service method of the request has run alone
Effect(req) ==
    CASE req.op = "markAttendance" ->
            [Registry EXCEPT !.students[req.id] =
                addAttendanceRecord(@,
                    AttendanceRecord(studentChains[req.id], req.body.status,
                                     req.body.date), now)]
      [] req.op = "deleteStudent" ->
            [Registry EXCEPT !.students[req.id] = addStudentDeletion(@, now)]
      [] req.op = "createDepartment" ->
            [Registry EXCEPT !.departments =
                (req.id :> DepartmentInitialize(
                    NewDepartmentChain(req.id, NameOf(req.id), difficulty),
                    req.body, now)) @@ @]
      [] req.op = "updateDepartment" ->
            [Registry EXCEPT !.departments[req.id] =
                addDepartmentUpdate(@, req.body, now)]

\* A handler that has been called and has not returned
Running(call) == call.pc \in {"checked", "constructed", "mined", "pushed"}

Suspended_AfterChecks(call) == call.pc = "checked"

\* A handler that waits at an await: the handlers and the service methods
\* they call contain none
Suspended(call) == FALSE

\* The event loop calls a handler when no other handler holds the stack
StackEmpty ==
    \A c \in Clients : Running(calls[c]) => Suspended(calls[c])

\* A request reaches the server
Receive(c, req) ==
    /\ calls[c] = Idle
    /\ calls' = [calls EXCEPT ![c] = [pc |-> "pending", request |-> req]]
    /\ UNCHANGED <<departmentChains, classChains, studentChains, difficulty,
                   storage, now, lastError, tampers, loaded, diskFault,
                   report, flagged, miner, order>>

\* The handler is called and runs its checks: it answers a request it
\* refuses and goes on with one it accepts
Check(c) ==
    /\ calls[c].pc = "pending"
    /\ StackEmpty
    /\ IF Refusal(calls[c].request) # "none"
       THEN /\ lastError' = Refusal(calls[c].request)
            /\ calls' = [calls EXCEPT ![c] = Idle]
       ELSE /\ HasRoom
            /\ lastError' = lastError
            /\ calls' = [calls EXCEPT ![c].pc = "checked"]
    /\ report' = NoReport
    /\ UNCHANGED <<departmentChains, classChains, studentChains, difficulty,
                   storage, now, tampers, loaded, diskFault, flagged, miner,
                   order>>

Construct(c) ==
    /\ calls[c].pc = "checked"
    /\ calls' = [calls EXCEPT ![c] =
                    [pc |-> "constructed", request |-> @.request,
                     block |-> Constructed(@.request)]]
    /\ UNCHANGED <<departmentChains, classChains, studentChains, difficulty,
                   storage, now, lastError, tampers, loaded, diskFault,
                   report, flagged, miner, order>>

Mine(c) ==
    /\ calls[c].pc = "constructed"
    /\ calls' = [calls EXCEPT ![c] =
                    [pc |-> "mined", request |-> @.request,
                     block |-> MinedFor(@.request, @.block)]]
    /\ UNCHANGED <<departmentChains, classChains, studentChains, difficulty,
                   storage, now, lastError, tampers, loaded, diskFault,
                   report, flagged, miner, order>>

Push(c) ==
    /\ calls[c].pc = "mined"
    /\ LET after == Pushed(calls[c].request, calls[c].block)
       IN /\ departmentChains' = after.departments
          /\ classChains' = after.classes
          /\ studentChains' = after.students
          /\ order' = Keys(after.departments, after.classes, after.students)
    /\ calls' = [calls EXCEPT ![c] = [pc |-> "pushed", request |-> @.request]]
    /\ UNCHANGED <<difficulty, storage, now, lastError, tampers, loaded,
                   diskFault, report, flagged, miner>>

\* saveAll() and the response
Save(c) ==
    /\ calls[c].pc = "pushed"
    /\ storage' = saveAll(departmentChains, classChains, studentChains)
    /\ lastError' = SaveError
    /\ calls' = [calls EXCEPT ![c] = Idle]
    /\ UNCHANGED <<departmentChains, classChains, studentChains, difficulty,
                   now, tampers, loaded, diskFault, report, flagged, miner,
                   order>>

NextServe ==
    \/ \E c \in Clients, req \in ServeRequests : Receive(c, req)
    \/ \E c \in Clients : Check(c)
    \/ \E c \in Clients : Construct(c)
    \/ \E c \in Clients : Mine(c)
    \/ \E c \in Clients : Push(c)
    \/ \E c \in Clients : Save(c)

SpecServe == InitLedger /\ [][NextServe]_vars

----------------------------------------------------------------------------
(* Validation requests on a persisted hierarchy whose blocks are tampered   *)
(* with in memory.  report holds the result the last request returned.     *)

\* flagged is a history of the verdicts: the chains a validation has reported
\* invalid since the last write that bypassed the registry
Flag(entityType, entityId, result) ==
    IF result.isValid THEN flagged ELSE flagged \cup {<<entityType, entityId>>}

\* A validation that rewrites what it finds broken
validateChain_Repair(entityType, entityId) ==
    /\ report' = [kind |-> entityType, id |-> entityId,
                  result |-> ValidateEntity(entityType, entityId)]
    /\ flagged' = Flag(entityType, entityId, report'.result)
    /\ departmentChains' = Reloaded.departments
    /\ classChains' = Reloaded.classes
    /\ studentChains' = Reloaded.students
    /\ UNCHANGED <<difficulty, storage, now, lastError, tampers, loaded,
                   diskFault, miner, order, calls>>

\* validateDepartmentChain, validateClassChain or validateStudentChain
validateChain(entityType, entityId) ==
    /\ report' = [kind |-> entityType, id |-> entityId,
                  result |-> ValidateEntity(entityType, entityId)]
    /\ flagged' = Flag(entityType, entityId, report'.result)
    /\ UNCHANGED <<departmentChains, classChains, studentChains, difficulty,
                   storage, now, lastError, tampers, loaded, diskFault, miner, order, calls>>

validateSystem ==
    /\ report' = [kind |-> "system", result |-> validateFullSystem]
    /\ UNCHANGED <<departmentChains, classChains, studentChains, difficulty,
                   storage, now, lastError, tampers, loaded, diskFault, flagged, miner, order, calls>>

NextAudit ==
    \/ \E id \in AuditClassIds, p \in AuditPatches : updateClass(id, p)
    \/ \E k \in Kinds, id \in AuditIds : simulateTampering(k, id)
    \/ \E k \in Kinds, id \in AuditIds : RelinkGenesis(k, id)
    \/ \E id \in AuditDeptIds : validateChain("department", id)
    \/ \E id \in AuditClassIds : validateChain("class", id)
    \/ \E id \in AuditStudentIds : validateChain("student", id)
    \/ validateSystem

SpecAudit == InitLedger /\ [][NextAudit]_vars

----------------------------------------------------------------------------
(* System validation of a persisted hierarchy with two chains at every     *)
(* level: class c1 and student s1 under department d1, class c2 and        *)
(* student s2 under department d2.                                         *)

SystemDeptIds == {"d1", "d2"}

SystemClassIds == {"c1", "c2"}

SystemStudentIds == {"s1", "s2"}

SystemIds == SystemDeptIds \cup SystemClassIds \cup SystemStudentIds

\* The parent each seeded class and student was created under
SystemParent == [c1 |-> "d1", c2 |-> "d2", s1 |-> "c1", s2 |-> "c2"]

SystemDepartments(d) ==
    [id \in SystemDeptIds |->
        DepartmentInitialize(NewDepartmentChain(id, NameOf(id), d), DeptData, 0)]

SystemClasses(d) ==
    [id \in SystemClassIds |->
        ClassInitialize(
            NewClassChain(id, NameOf(id), SystemParent[id], d), ClassData,
            getLatestBlock(SystemDepartments(d)[SystemParent[id]]).hash, 0)]

SystemStudents(d) ==
    [id \in SystemStudentIds |->
        StudentInitialize(
            NewStudentChain(id, NameOf(id), "r-" \o id, SystemParent[id],
                            SystemParent[SystemParent[id]], d),
            StudentData,
            getLatestBlock(SystemClasses(d)[SystemParent[id]]).hash, 0)]

InitSystem ==
    /\ difficulty \in Difficulties
    /\ order = [departments |-> <<"d1", "d2">>, classes |-> <<"c1", "c2">>,
                students |-> <<"s1", "s2">>]
    /\ departmentChains = SystemDepartments(difficulty)
    /\ classChains = SystemClasses(difficulty)
    /\ studentChains = SystemStudents(difficulty)
    /\ storage = Snapshot(departmentChains, classChains, studentChains)
    /\ now = 0
    /\ lastError = "none"
    /\ tampers = 0
    /\ loaded = TotalBlocks
    /\ diskFault = NoFault
    /\ report = NoReport
    /\ flagged = {}
    /\ miner = Idle
    /\ calls = NoCalls

\* The chains that take registry operations: one of each level, in different
\* branches
SystemGrowing == {"d1", "c2", "s1"}

\* One chain of every level grows, a block of a grown chain or the genesis
\* link of any chain is overwritten in memory, and the whole system is
\* validated
NextSystem ==
    \/ \E id \in SystemDeptIds \cap SystemGrowing, p \in AuditPatches :
            updateDepartment(id, p)
    \/ \E id \in SystemClassIds \cap SystemGrowing, p \in AuditPatches :
            updateClass(id, p)
    \/ \E id \in SystemStudentIds \cap SystemGrowing,
          dt \in AuditDates, st \in AuditStatuses :
            markAttendance(id, AttendanceInput(id, dt, st))
    \/ \E k \in Kinds, id \in SystemGrowing, i \in 1..(MaxBlocks - 1) :
            CorruptBlock(k, id, i)
    \/ \E k \in Kinds, id \in SystemIds : RelinkGenesis(k, id)
    \/ validateSystem

SpecSystem == InitSystem /\ [][NextSystem]_vars

----------------------------------------------------------------------------
(* Registry operations of every kind on a persisted hierarchy whose blocks *)
(* are tampered with in memory, with validations of single chains before   *)
(* and after them.                                                         *)

RepairClassIds == AuditClassIds \cup {"c2"}

RepairStudentIds == AuditStudentIds \cup {"s2"}

\* The seeded chains take operations of every kind, children are created
\* under them, and the seeded chains are validated
NextRepair ==
    \/ \E id \in AuditDeptIds, p \in AuditPatches : updateDepartment(id, p)
    \/ \E id \in AuditDeptIds : deleteDepartment(id)
    \/ \E id \in RepairClassIds \ DOMAIN classChains, d \in AuditDeptIds :
            createClass(id, NameOf(id), d, ClassData)
    \/ \E id \in AuditClassIds, p \in AuditPatches : updateClass(id, p)
    \/ \E id \in AuditClassIds : deleteClass(id)
    \/ \E id \in RepairStudentIds \ DOMAIN studentChains, r \in RollNumbers,
          c \in AuditClassIds, d \in AuditDeptIds :
            createStudent(id, NameOf(id), r, c, d, StudentData)
    \/ \E id \in AuditStudentIds, p \in AuditPatches : updateStudent(id, p)
    \/ \E id \in AuditStudentIds : deleteStudent(id)
    \/ \E id \in AuditStudentIds, dt \in AuditDates, st \in AuditStatuses :
            markAttendance(id, AttendanceInput(id, dt, st))
    \/ \E k \in Kinds, id \in AuditIds : simulateTampering(k, id)
    \/ \E k \in Kinds, id \in AuditIds : RelinkGenesis(k, id)
    \/ \E id \in AuditDeptIds : validateChain("department", id)
    \/ \E id \in AuditClassIds : validateChain("class", id)
    \/ \E id \in AuditStudentIds : validateChain("student", id)

\* The chains were mined at the difficulty the validators ask for, so a
\* chain is reported invalid only after a block of it, or of a chain above
\* it, was overwritten
InitRepair == InitLedger /\ difficulty = DefaultDifficulty

SpecRepair == InitRepair /\ [][NextRepair]_vars

----------------------------------------------------------------------------
(* The request handlers of the three levels and the bulk attendance        *)
(* endpoint, on a registry that holds two departments and one class.       *)

\* String.prototype.toUpperCase on the strings the requests carry
toUpperCase(str) ==
    CASE str = "r1" -> "R1"
      [] str = "r2" -> "R2"
      [] str = "code" -> "CODE"
      [] OTHER -> str

\* input.trim().replace(/[<>]/g, "")
sanitizeInput(input) ==
    CASE input = "<name>" -> "name"
      [] OTHER -> input

\* /^[^\s@]+@[^\s@]+\.[^\s@]+$/
validateEmail(email) == email \in {"a@b.c"}

HandlerDeptIds == {"d1", "d2"}

HandlerClassIds == {"c1", "c2"}

HandlerStudentIds == {"s1", "s2"}

HandlerRolls == {"R1", "r1", "R2"}

HandlerEmails == {"a@b.c"}

HandlerPatches == {[rollNumber |-> "r1"], [status |-> "active"],
                   [email |-> ""]}

\* Semester and year of a class request: both absent, or both given
HandlerTerms == {<<"", 0>>, <<"Fall", 2024>>}

IsDeleted(state) == "status" \in DOMAIN state /\ state.status = "deleted"

\* POST /classes; id is the value generateId("class") returns, an absent
\* semester is "" and an absent year is 0
createClassRequest(id, name, code, departmentId, semester, year) ==
    IF name = "" \/ code = "" \/ departmentId = "" THEN Fail("400 required")
    ELSE IF departmentId \notin DOMAIN departmentChains
    THEN Fail("404 department")
    ELSE IF IsDeleted(getCurrentState(departmentChains[departmentId]))
    THEN Fail("400 deleted department")
    ELSE createClass(id, sanitizeInput(name), departmentId,
                     [code |-> sanitizeInput(toUpperCase(code)),
                      semester |-> semester,
                      year |-> IF year = 0 THEN CurrentYear ELSE year])

\* The find() over getAllStudents() in createStudent
duplicateRoll(rollNumber) ==
    \E id \in DOMAIN studentChains :
        LET state == getCurrentState(studentChains[id])
        IN state.rollNumber = rollNumber /\ state.status = "active"

\* POST /students; id is the value generateId("student") returns
createStudentRequest(id, name, rollNumber, email, classId, departmentId) ==
    IF name = "" \/ rollNumber = "" \/ classId = "" \/ departmentId = ""
    THEN Fail("400 required")
    ELSE IF classId \notin DOMAIN classChains THEN Fail("404 class")
    ELSE IF IsDeleted(getCurrentState(classChains[classId]))
    THEN Fail("400 deleted class")
    ELSE IF departmentId \notin DOMAIN departmentChains
    THEN Fail("404 department")
    ELSE IF duplicateRoll(rollNumber) THEN Fail("400 roll number")
    ELSE IF email # "" /\ ~validateEmail(email) THEN Fail("400 email")
    ELSE createStudent(id, sanitizeInput(name),
                       sanitizeInput(toUpperCase(rollNumber)), classId,
                       departmentId,
                       IF email = "" THEN <<>>
                       ELSE [email |-> sanitizeInput(email)])

\* PUT /students/:id
updateStudentRequest(id, updates) ==
    IF id \notin DOMAIN studentChains THEN Fail("404 student")
    ELSE LET sanitized ==
                 [k \in DOMAIN updates |->
                     IF k = "rollNumber"
                     THEN sanitizeInput(toUpperCase(updates[k]))
                     ELSE IF k \in {"name", "email"}
                     THEN sanitizeInput(updates[k])
                     ELSE updates[k]]
         IN IF /\ "email" \in DOMAIN updates /\ updates.email # ""
               /\ ~validateEmail(updates.email)
            THEN Fail("400 email")
            ELSE updateStudent(id, sanitized)

BulkAccepts_DeletedToo(students, record) ==
    /\ record.studentId # "" /\ record.status # ""
    /\ record.status \in {"Present", "Absent", "Leave"}
    /\ record.studentId \in DOMAIN students
    /\ isValidDate(attendanceDate(record.date))
    /\ getAttendanceByDate(students[record.studentId],
                           attendanceDate(record.date)) = Null

\* Whether the loop of markBulkAttendance marks the record, given the student
\* chains as the records before it left them
BulkAccepts(students, record) ==
    /\ record.studentId # "" /\ record.status # ""
    /\ record.status \in {"Present", "Absent", "Leave"}
    /\ record.studentId \in DOMAIN students
    /\ ~IsDeleted(getCurrentState(students[record.studentId]))
    /\ isValidDate(attendanceDate(record.date))
    /\ getAttendanceByDate(students[record.studentId],
                           attendanceDate(record.date)) = Null

\* blockchainService.markAttendance() in the loop appends the block and then
\* throws when its save fails: the catch lists the record under errors and
\* only a record whose save went through counts as marked
Counted == IF diskFault = NoFault THEN 1 ELSE 0

\* The for loop of markBulkAttendance over records k..: the student chains
\* after it and the number of records marked
RECURSIVE BulkLoop_Stale(_, _, _, _)
BulkLoop_Stale(records, k, students, successful) ==
    IF k > Len(records) THEN [students |-> students, successful |-> successful]
    ELSE IF BulkAccepts(studentChains, records[k])
    THEN LET studentChain == students[records[k].studentId]
             attendanceRecord ==
                 [studentId |-> studentChain.studentId,
                  studentName |-> studentChain.studentName,
                  rollNumber |-> studentChain.rollNumber,
                  classId |-> studentChain.classId,
                  departmentId |-> studentChain.departmentId,
                  date |-> attendanceDate(records[k].date),
                  status |-> records[k].status, markedAt |-> now]
         IN BulkLoop_Stale(records, k + 1,
                     [students EXCEPT ![records[k].studentId] =
                         addAttendanceRecord(@, attendanceRecord, now)],
                     successful + Counted)
    ELSE BulkLoop_Stale(records, k + 1, students, successful)

RECURSIVE BulkLoop(_, _, _, _)
BulkLoop(records, k, students, successful) ==
    IF k > Len(records) THEN [students |-> students, successful |-> successful]
    ELSE IF BulkAccepts(students, records[k])
    THEN LET studentChain == students[records[k].studentId]
             attendanceRecord ==
                 [studentId |-> studentChain.studentId,
                  studentName |-> studentChain.studentName,
                  rollNumber |-> studentChain.rollNumber,
                  classId |-> studentChain.classId,
                  departmentId |-> studentChain.departmentId,
                  date |-> attendanceDate(records[k].date),
                  status |-> records[k].status, markedAt |-> now]
         IN BulkLoop(records, k + 1,
                     [students EXCEPT ![records[k].studentId] =
                         addAttendanceRecord(@, attendanceRecord, now)],
                     successful + Counted)
    ELSE BulkLoop(records, k + 1, students, successful)

\* POST /attendance with attendanceRecords: every record is tried, the
\* response is 201 whatever the records did.  Every appended record is
\* followed by saveAll(), so the files are as the last of these left them
markBulkAttendanceRequest(attendanceRecords) ==
    IF Len(attendanceRecords) = 0 THEN Fail("400 records")
    ELSE LET out == BulkLoop(attendanceRecords, 1, studentChains, 0)
         IN /\ TotalBlocks + Len(attendanceRecords) <= MaxBlocks + loaded
            /\ studentChains' = out.students
            /\ storage' = IF out.students = studentChains THEN storage
                          ELSE saveAll(departmentChains, classChains,
                                       out.students)
            /\ lastError' = IF out.successful = 0 THEN "201 none marked"
                            ELSE "none"
            /\ report' = NoReport
            /\ UNCHANGED <<departmentChains, classChains, difficulty, now,
                           tampers, loaded, diskFault, flagged, miner, order, calls>>

BulkRecords ==
    [studentId : {"s1"}, status : {"Present", "Late"},
     date : {"2024-11-16", "", "16/11/2024"}]

BulkRequests ==
    {<<>>} \cup {<<a>> : a \in BulkRecords}
           \cup {<<a, b>> : a \in BulkRecords, b \in BulkRecords}

\* Both departments are registered, the class belongs to the first
HandlerDepartments(d) ==
    [id \in HandlerDeptIds |->
        DepartmentInitialize(NewDepartmentChain(id, NameOf(id), d), DeptData, 0)]

InitHandlers ==
    /\ difficulty = DefaultDifficulty
    /\ order = [departments |-> <<"d1", "d2">>, classes |-> <<"c1">>,
                students |-> <<>>]
    /\ departmentChains = HandlerDepartments(difficulty)
    /\ classChains = SeedClasses(difficulty)
    /\ studentChains = <<>>
    /\ storage = Snapshot(departmentChains, classChains, studentChains)
    /\ now = 0
    /\ lastError = "none"
    /\ tampers = 0
    /\ loaded = TotalBlocks
    /\ diskFault = NoFault
    /\ report = NoReport
    /\ flagged = {}
    /\ miner = Idle
    /\ calls = NoCalls

\* Enrolment: students are created, renumbered, revived and deleted
NextEnroll ==
    \/ \E id \in HandlerStudentIds \ DOMAIN studentChains, r \in HandlerRolls,
          e \in HandlerEmails, c \in HandlerClassIds, d \in HandlerDeptIds :
            createStudentRequest(id, "<name>", r, e, c, d)
    \/ \E id \in HandlerStudentIds, p \in HandlerPatches :
            updateStudentRequest(id, p)
    \/ \E id \in DOMAIN studentChains : deleteStudent(id)

SpecEnroll == InitHandlers /\ [][NextEnroll]_vars

\* Deletions at every level, followed by requests under the deleted entity
NextHandlers ==
    \/ \E id \in AuditDeptIds : deleteDepartment(id)
    \/ \E id \in DOMAIN classChains : deleteClass(id)
    \/ \E id \in DOMAIN studentChains : deleteStudent(id)
    \/ \E id \in HandlerClassIds \ DOMAIN classChains, d \in HandlerDeptIds,
          t \in HandlerTerms :
            createClassRequest(id, NameOf(id), "code", d, t[1], t[2])
    \/ \E id \in AuditStudentIds \ DOMAIN studentChains, c \in HandlerClassIds :
            createStudentRequest(id, "<name>", "r1", "a@b.c", c, "d1")
    \/ \E id \in AuditStudentIds, st \in RequestStatuses, dt \in RequestDates :
            markAttendanceRequest(id, st, dt)
    \/ \E records \in BulkRequests : markBulkAttendanceRequest(records)

SpecHandlers == InitHandlers /\ [][NextHandlers]_vars

----------------------------------------------------------------------------
(* Block.mineBlock, one pass of its while loop at a time *)

\* The model stops mining at this nonce
MaxNonce == 16

\* Values of DIFFICULTY: 0, 1 and 2 can be met; a prefix longer than the
\* digest never can
MineDifficulties == {0, 1, 2, HashWidth + 1}

\* this.hash.substring(0, difficulty) !== target
Unmined(b, d) == Substring(b.hash.hex, d) # Target(d)

Attempt_KeepHash(b) == [b EXCEPT !.nonce = @ + 1]

\* this.nonce++; this.hash = this.calculateHash()
Attempt(b) ==
    LET n == [b EXCEPT !.nonce = @ + 1]
    IN [n EXCEPT !.hash = calculateHash(n)]

Others == <<departmentChains, classChains, studentChains, difficulty,
            storage, now, lastError, tampers, loaded, diskFault, report,
            flagged, order, calls>>

\* createDepartment up to the call genesisBlock.mineBlock(this.difficulty) in
\* createGenesisBlock; miner.chain is the chain the block will be pushed to
MineGenesis(id, name, data) ==
    /\ miner.pc = "idle"
    /\ id \notin DOMAIN departmentChains
    /\ HasRoom
    /\ LET c == NewDepartmentChain(id, name, difficulty)
           b == GenesisBlock(DepartmentInfo(c, data, now), RootMarker, now)
       IN miner' = [pc |-> "loop", chain |-> c, block |-> b, start |-> b,
                    difficulty |-> c.difficulty]
    /\ UNCHANGED Others

\* addBlock(newBlock) on the department chain id up to the call
\* newBlock.mineBlock(this.difficulty)
MineCall(id, newBlock) ==
    /\ miner.pc = "idle"
    /\ id \in DOMAIN departmentChains
    /\ CanGrow(departmentChains[id])
    /\ LET c == departmentChains[id]
           b == Relinked(c, newBlock)
       IN miner' = [pc |-> "loop", chain |-> c, block |-> b, start |-> b,
                    difficulty |-> c.difficulty]
    /\ UNCHANGED Others

\* One pass of the loop body
MineAttempt ==
    /\ miner.pc = "loop"
    /\ Unmined(miner.block, miner.difficulty)
    /\ miner.block.nonce < MaxNonce
    /\ miner' = [miner EXCEPT !.block = Attempt(@)]
    /\ UNCHANGED Others

\* The loop condition fails and the method returns
MineReturn ==
    /\ miner.pc = "loop"
    /\ ~Unmined(miner.block, miner.difficulty)
    /\ miner' = [miner EXCEPT !.pc = "done"]
    /\ UNCHANGED Others

\* this.chain.push(block), and the registry method that made the call goes
\* on: departmentChains.set(id, chain) and saveAll()
MineDone ==
    /\ miner.pc = "done"
    /\ LET pushed == [miner.chain EXCEPT !.chain = Append(@, miner.block)]
           depts == (pushed.departmentId :> pushed) @@ departmentChains
       IN /\ departmentChains' = depts
          /\ order' = Keys(depts, classChains, studentChains)
          /\ storage' = saveAll(depts, classChains, studentChains)
    /\ lastError' = SaveError
    /\ report' = NoReport
    /\ miner' = Idle
    /\ UNCHANGED <<classChains, studentChains, difficulty, now, tampers,
                   loaded, diskFault, flagged, calls>>

\* An empty registry under any value of DIFFICULTY
InitMine ==
    /\ departmentChains = <<>>
    /\ classChains = <<>>
    /\ studentChains = <<>>
    /\ difficulty \in MineDifficulties
    /\ order = NoKeys
    /\ storage = Snapshot(<<>>, <<>>, <<>>)
    /\ now = 0
    /\ lastError = "none"
    /\ tampers = 0
    /\ loaded = 0
    /\ diskFault = NoFault
    /\ report = NoReport
    /\ flagged = {}
    /\ miner = Idle
    /\ calls = NoCalls

\* Departments are created and updated as createDepartment and
\* updateDepartment do it, with the mining loop run pass by pass
NextMine ==
    \/ \E id \in DeptIds : MineGenesis(id, NameOf(id), DeptData)
    \/ \E id \in DOMAIN departmentChains, p \in Patches :
          MineCall(id, DepartmentUpdateBlock(departmentChains[id], p, now))
    \/ MineAttempt
    \/ MineReturn
    \/ MineDone

\* The loop is synchronous code: a pass that can run does run
SpecMine ==
    /\ InitMine
    /\ [][NextMine]_vars
    /\ WF_vars(MineAttempt)
    /\ WF_vars(MineReturn)

----------------------------------------------------------------------------
(* Properties *)

IsPrefix(a, b) == Len(a) <= Len(b) /\ SubSeq(b, 1, Len(a)) = a

MeetsTarget(b, d) == Substring(b.hash.hex, d) = Target(d)

Linked(chain) ==
    /\ Len(chain) > 0
    /\ chain[1].index = 0
    /\ \A i \in 2..Len(chain) :
          /\ chain[i].index = i - 1
          /\ chain[i].prev_hash = chain[i - 1].hash

\* C1: with registry operations only, every registered chain is non-empty,
\* block 0 has index 0, and each later block i has index i and a prev_hash
\* equal to the stored hash of block i - 1.
C1_ChainsLinked ==
    /\ \A id \in DOMAIN departmentChains : Linked(departmentChains[id].chain)
    /\ \A id \in DOMAIN classChains : Linked(classChains[id].chain)
    /\ \A id \in DOMAIN studentChains : Linked(studentChains[id].chain)

C1_Witness ==
    /\ \E id \in DOMAIN departmentChains : Len(departmentChains[id].chain) >= 1
    /\ \E id \in DOMAIN classChains : Len(classChains[id].chain) >= 1
    /\ \E id \in DOMAIN studentChains :
          /\ Len(studentChains[id].chain) >= 2
          /\ studentChains[id].chain[2].transactions[1].type = "attendance"

\* C2: a class (student) created under a department (class) gets, as genesis
\* prev_hash and as stored parent-link hash, the parent's latest block hash of
\* the moment of creation, and no later registry operation changes either.
C2_GenesisBinding ==
    [][ /\ \A id \in DOMAIN classChains' :
             LET c == classChains'[id]
             IN IF id \in DOMAIN classChains
                THEN /\ c.chain[1].prev_hash = classChains[id].chain[1].prev_hash
                     /\ c.parentDepartmentHash = classChains[id].parentDepartmentHash
                ELSE LET h == getLatestBlock(departmentChains[c.departmentId]).hash
                     IN c.chain[1].prev_hash = h /\ c.parentDepartmentHash = h
        /\ \A id \in DOMAIN studentChains' :
             LET c == studentChains'[id]
             IN IF id \in DOMAIN studentChains
                THEN /\ c.chain[1].prev_hash = studentChains[id].chain[1].prev_hash
                     /\ c.parentClassHash = studentChains[id].parentClassHash
                ELSE LET h == getLatestBlock(classChains[c.classId]).hash
                     IN c.chain[1].prev_hash = h /\ c.parentClassHash = h
      ]_vars

\* A class whose department has been extended since the class was created
C2_Witness ==
    \E id \in DOMAIN classChains :
        LET c == classChains[id]
            parent == departmentChains[c.departmentId]
        IN /\ Len(parent.chain) >= 2
           /\ getLatestBlock(parent).hash # c.parentDepartmentHash
           /\ c.parentDepartmentHash = parent.chain[1].hash
           /\ c.chain[1].prev_hash = parent.chain[1].hash

GrowsByAppend(old, new) ==
    /\ IsPrefix(old.chain, new.chain)
    /\ Len(new.chain) <= Len(old.chain) + 1

\* C3: across every registry operation each chain's earlier block sequence
\* is an unchanged prefix of its later one, at most one block is appended,
\* and no chain id leaves the registry; a delete only appends a block.
C3_AppendOnly ==
    [][ /\ \A id \in DOMAIN departmentChains :
             /\ id \in DOMAIN departmentChains'
             /\ GrowsByAppend(departmentChains[id], departmentChains'[id])
        /\ \A id \in DOMAIN classChains :
             /\ id \in DOMAIN classChains'
             /\ GrowsByAppend(classChains[id], classChains'[id])
        /\ \A id \in DOMAIN studentChains :
             /\ id \in DOMAIN studentChains'
             /\ GrowsByAppend(studentChains[id], studentChains'[id])
      ]_vars

\* A department that was deleted and then appended to again
C3_Witness ==
    \E id \in DOMAIN departmentChains :
        LET chain == departmentChains[id].chain
        IN /\ Len(chain) = 3
           /\ chain[2].transactions[1].type = "delete"
           /\ chain[1].transactions[1].data.status = "active"

FullyMined(c) ==
    \A i \in 1..Len(c.chain) :
        isValid(c.chain[i]) /\ MeetsTarget(c.chain[i], c.difficulty)

\* C4: every block observable in a chain after a mutating call is mined: its
\* stored hash is the hash of its fields and starts with `difficulty` zeros.
C4_BlocksMined ==
    /\ \A id \in DOMAIN departmentChains : FullyMined(departmentChains[id])
    /\ \A id \in DOMAIN classChains : FullyMined(classChains[id])
    /\ \A id \in DOMAIN studentChains : FullyMined(studentChains[id])

\* An appended block whose mining took more than one attempt
C4_Witness ==
    \E id \in DOMAIN departmentChains :
        LET chain == departmentChains[id].chain
        IN Len(chain) >= 2 /\ chain[2].nonce > 0 /\ chain[1].nonce > 0

ParentInvalidMsg == "Parent department chain is invalid"

CorruptedAfterGenesis(c) == \E i \in 2..Len(c.chain) : ~isValid(c.chain[i])

\* C5: when a department is invalid (validation rejects it, as it does when
\* one of its appended blocks was corrupted in place), validation of every
\* class under it is invalid and names the parent department chain invalid.
C5_ClassCascade ==
    \A id \in DOMAIN classChains :
        LET c == classChains[id]
            r == validateClassChain(id)
        IN (\/ ~validateDepartmentChain(c.departmentId).isValid
            \/ CorruptedAfterGenesis(departmentChains[c.departmentId]))
           => (~r.isValid /\ ParentInvalidMsg \in Range(r.errors))

\* The class's own checks pass and the only error is the parent's
C5_Witness ==
    \E id \in DOMAIN classChains :
        LET c == classChains[id]
            r == validateClassChain(id)
        IN /\ CorruptedAfterGenesis(departmentChains[c.departmentId])
           /\ isChainValid(c)
           /\ r.details.parentLink
           /\ r.errors = <<ParentInvalidMsg>>
           /\ ~r.isValid

\* C6: a student is reported valid only if its parent class is reported valid
\* and that class's department is reported valid.
C6_StudentCascade ==
    \A id \in DOMAIN studentChains :
        LET s == studentChains[id]
        IN validateStudentChain(id).isValid
           => /\ validateClassChain(s.classId).isValid
              /\ validateDepartmentChain(
                     classChains[s.classId].departmentId).isValid

\* A student whose own chain and link are sound under a corrupted department
C6_Witness ==
    \E id \in DOMAIN studentChains :
        LET s == studentChains[id]
            r == validateStudentChain(id)
        IN /\ CorruptedAfterGenesis(
                  departmentChains[classChains[s.classId].departmentId])
           /\ isChainValid(s)
           /\ isChainValid(classChains[s.classId])
           /\ r.errors = <<"Parent class chain is invalid">>
           /\ ~r.isValid

HashIn(h, chain) == \E i \in 1..Len(chain) : chain[i].hash = h

\* C7: once tampering has changed the parent block hash a child captured
\* (even if the parent block was re-mined), validation of that child reports
\* invalid; without tampering the parent-link check stays true.
C7_RetroactiveTamperDetected ==
    /\ \A id \in DOMAIN classChains :
          LET c == classChains[id]
          IN /\ ~HashIn(c.parentDepartmentHash,
                        departmentChains[c.departmentId].chain)
                   => ~validateClassChain(id).isValid
             /\ tampers = 0 => validateClassChain(id).details.parentLink
    /\ \A id \in DOMAIN studentChains :
          LET s == studentChains[id]
          IN /\ ~HashIn(s.parentClassHash, classChains[s.classId].chain)
                   => ~validateStudentChain(id).isValid
             /\ tampers = 0 => validateStudentChain(id).details.parentLink

GenesisBroken(c) ==
    ~isValid(c.chain[1]) \/ ~MeetsTarget(c.chain[1], c.difficulty)

\* C8: a chain whose block 0 no longer hashes to its stored hash, or whose
\* block 0 hash lacks `difficulty` leading zeros, fails the integrity check
\* and the department validation.
C8_GenesisCovered ==
    /\ \A id \in DOMAIN departmentChains :
          GenesisBroken(departmentChains[id])
             => /\ ~isChainValid(departmentChains[id])
                /\ ~validateDepartmentChain(id).isValid
    /\ \A id \in DOMAIN classChains :
          GenesisBroken(classChains[id]) => ~isChainValid(classChains[id])
    /\ \A id \in DOMAIN studentChains :
          GenesisBroken(studentChains[id]) => ~isChainValid(studentChains[id])

\* Block index j (j >= 1) passes the three checks of the integrity loop
Intact(c, j) ==
    /\ isValid(c.chain[j + 1])
    /\ c.chain[j + 1].prev_hash = c.chain[j].hash
    /\ MeetsTarget(c.chain[j + 1], c.difficulty)

DetectsCorruption(c, valid) ==
    \A i \in 1..(Len(c.chain) - 1) :
        ~isValid(c.chain[i + 1])
           => /\ ~isChainValid(c)
              /\ ~valid
              /\ (\A j \in 1..(i - 1) : Intact(c, j))
                    => FirstInvalidFrom(c, 1) = i

\* C9: a block at index i >= 1 whose payload was changed in place without
\* re-mining makes the integrity check fail, at index i when the blocks
\* before it are intact, and makes validation of that entity invalid.
C9_CorruptionDetected ==
    /\ \A id \in DOMAIN departmentChains :
          DetectsCorruption(departmentChains[id],
                            validateDepartmentChain(id).isValid)
    /\ \A id \in DOMAIN classChains :
          DetectsCorruption(classChains[id], validateClassChain(id).isValid)
    /\ \A id \in DOMAIN studentChains :
          DetectsCorruption(studentChains[id], validateStudentChain(id).isValid)

\* The last block of a three-block department chain was corrupted
C9_Witness ==
    \E id \in DOMAIN departmentChains :
        LET c == departmentChains[id]
        IN /\ Len(c.chain) = 3
           /\ ~isValid(c.chain[3])
           /\ Intact(c, 1)
           /\ FirstInvalidFrom(c, 1) = 2
           /\ ~validateDepartmentChain(id).isValid

\* C10: for any configured difficulty, in a registry built only through
\* registry operations, validation of every department, class and student
\* reports valid.
C10_UntamperedValid ==
    /\ \A id \in DOMAIN departmentChains : validateDepartmentChain(id).isValid
    /\ \A id \in DOMAIN classChains : validateClassChain(id).isValid
    /\ \A id \in DOMAIN studentChains : validateStudentChain(id).isValid

----------------------------------------------------------------------------
(* Attendance records and the projected state *)

\* The dates that already have a record in a student chain's history
DatesOf(c) == {getAttendanceHistory(c)[k].date :
                   k \in DOMAIN getAttendanceHistory(c)}

\* C11: a step never appends to a student chain an attendance block whose
\* date already has a record in that chain's history (the append is rejected
\* and the chain keeps its length).
C11_DuplicateDateRejected ==
    [][\A id \in DOMAIN studentChains :
          LET old == studentChains[id]
              new == studentChains'[id]
          IN (/\ Len(new.chain) > Len(old.chain)
              /\ getLatestBlock(new).transactions[1].type = "attendance")
             => getLatestBlock(new).transactions[1].data.date \notin DatesOf(old)]_vars

\* A delete block has been appended to the chain
HasDelete(c) ==
    \E i \in 2..Len(c.chain) : c.chain[i].transactions[1].type = "delete"

DeletedForGood(c) == HasDelete(c) => getCurrentState(c).status = "deleted"

\* C12: once a chain holds a delete block its current state has status
\* "deleted", whatever blocks were appended after the delete block.
C12_DeleteTerminal ==
    /\ \A id \in DOMAIN departmentChains : DeletedForGood(departmentChains[id])
    /\ \A id \in DOMAIN classChains : DeletedForGood(classChains[id])
    /\ \A id \in DOMAIN studentChains : DeletedForGood(studentChains[id])

\* The step appended a delete block to a chain whose state was already deleted
DeletedAgain(old, new) ==
    /\ getCurrentState(old).status = "deleted"
    /\ Len(new.chain) = Len(old.chain) + 1
    /\ getLatestBlock(new).transactions[1].type = "delete"

SameStateAfter(old, new) ==
    DeletedAgain(old, new) =>
        /\ getCurrentState(new) = getCurrentState(old)
        /\ getCurrentState(new).status = "deleted"
        /\ lastError' = "none"

\* C13: deleting an entity whose current status is already "deleted" raises
\* no error and leaves its current state as it was, status "deleted", while
\* one more block is appended.
C13_DeleteIdempotent ==
    [][/\ \A id \in DOMAIN departmentChains :
             SameStateAfter(departmentChains[id], departmentChains'[id])
       /\ \A id \in DOMAIN classChains :
             SameStateAfter(classChains[id], classChains'[id])
       /\ \A id \in DOMAIN studentChains :
             SameStateAfter(studentChains[id], studentChains'[id])]_vars

\* The last two blocks of the chain are delete blocks
TwoDeletes(c) ==
    /\ Len(c.chain) >= 3
    /\ c.chain[Len(c.chain)].transactions[1].type = "delete"
    /\ c.chain[Len(c.chain) - 1].transactions[1].type = "delete"
    /\ getCurrentState(c).status = "deleted"

C13_Witness ==
    /\ lastError = "none"
    /\ \E id \in DOMAIN classChains : TwoDeletes(classChains[id])

\* One entry applied to an accumulated state: an update patch wins field by
\* field, a delete forces the status, a record leaves the state alone
ApplyEntry(state, tx) ==
    CASE tx.type = "update" ->
            [k \in DOMAIN state \cup DOMAIN tx.data.updates |->
                IF k \in DOMAIN tx.data.updates THEN tx.data.updates[k]
                ELSE state[k]]
      [] tx.type = "delete" -> [state EXCEPT !.status = "deleted"]
      [] OTHER -> state

\* The left fold over the first n blocks, starting from the genesis snapshot
RECURSIVE FoldState(_, _)
FoldState(chain, n) ==
    IF n = 1 THEN chain[1].transactions[1].data
    ELSE ApplyEntry(FoldState(chain, n - 1), chain[n].transactions[1])

IsFold(c) == getCurrentState(c) = FoldState(c.chain, Len(c.chain))

\* C14: the current state of every chain is the left fold over its blocks in
\* chain order, from the genesis snapshot, update patches merged over the
\* accumulated state and status set to "deleted" at each delete block.
C14_StateIsFold ==
    /\ \A id \in DOMAIN departmentChains : IsFold(departmentChains[id])
    /\ \A id \in DOMAIN classChains : IsFold(classChains[id])
    /\ \A id \in DOMAIN studentChains : IsFold(studentChains[id])

\* A student chain holding a rename, then a delete, then an update that sets
\* the status again, with a record in between
C14_Witness ==
    \E id \in DOMAIN studentChains :
        LET c == studentChains[id]
            types == [i \in DOMAIN c.chain |-> c.chain[i].transactions[1].type]
        IN /\ Len(c.chain) = 5
           /\ types[2] = "update" /\ types[3] = "delete"
           /\ types[4] = "attendance" /\ types[5] = "update"
           /\ getCurrentState(c).name = "renamed"
           /\ getCurrentState(c).status = "active"

\* The step appended one attendance block to the chain
RecordAppended(old, new) ==
    /\ Len(new.chain) = Len(old.chain) + 1
    /\ getLatestBlock(new).transactions[1].type = "attendance"

\* C15: a step that appends an attendance block to a student chain leaves the
\* student's current state as it was and adds the block's record at the end
\* of the attendance history; every other step leaves the history as it was.
C15_RecordsApart ==
    [][\A id \in DOMAIN studentChains :
          LET old == studentChains[id]
              new == studentChains'[id]
          IN IF RecordAppended(old, new)
             THEN /\ getCurrentState(new) = getCurrentState(old)
                  /\ getAttendanceHistory(new) =
                        Append(getAttendanceHistory(old),
                               getLatestBlock(new).transactions[1].data)
             ELSE getAttendanceHistory(new) = getAttendanceHistory(old)]_vars

\* Two records of different dates with an update between them, returned in
\* the order they were appended
C15_Witness ==
    \E id \in DOMAIN studentChains :
        LET c == studentChains[id]
            h == getAttendanceHistory(c)
        IN /\ Len(c.chain) = 4
           /\ c.chain[3].transactions[1].type = "update"
           /\ Len(h) = 2
           /\ h[1].date # h[2].date
           /\ h[1] = c.chain[2].transactions[1].data
           /\ h[2] = c.chain[4].transactions[1].data
           /\ getCurrentState(c).name = "renamed"

----------------------------------------------------------------------------
(* Rejected and accepted creations *)

\* The request failed with the given error and the registry, in memory and
\* persisted, is as it was
Rejected(msg) ==
    /\ lastError' = msg
    /\ UNCHANGED <<departmentChains, classChains, studentChains, storage, miner, order>>

\* C16: a create request naming an id already present at its level fails
\* with "already exists" and changes neither the chains nor the persisted
\* snapshot.
C16_DuplicateCreateRejected ==
    [][/\ \A id \in DOMAIN departmentChains :
             createDepartment(id, NameOf(id), DeptData)
                => Rejected("already exists")
       /\ \A id \in DOMAIN classChains, d \in DeptIds :
             createClass(id, NameOf(id), d, ClassData)
                => Rejected("already exists")
       /\ \A id \in DOMAIN studentChains, r \in RollNumbers,
             c \in ClassIds, d \in DeptIds :
             createStudent(id, NameOf(id), r, c, d, StudentData)
                => Rejected("already exists")]_vars

\* A create was rejected as a duplicate while a chain that has grown past its
\* genesis block is registered and persisted as it is
C16_Witness ==
    /\ lastError = "already exists"
    /\ \E id \in DOMAIN departmentChains : Len(departmentChains[id].chain) >= 2
    /\ classChains # <<>>
    /\ storage = Snapshot(departmentChains, classChains, studentChains)

\* The chain registered under a new id holds its genesis block only and the
\* request ended without error
Registered(chains, id) ==
    /\ Len(chains[id].chain) = 1
    /\ lastError' = "none"

\* C17: creating a class under an absent department, or a student under an
\* absent class, fails with "not found" and registers nothing; a chain that
\* is registered has its parent present and holds exactly its genesis block.
C17_ParentRequired ==
    [][/\ \A id \in ClassIds \ DOMAIN classChains,
             d \in DeptIds \ DOMAIN departmentChains :
             createClass(id, NameOf(id), d, ClassData) => Rejected("not found")
       /\ \A id \in StudentIds \ DOMAIN studentChains, r \in RollNumbers,
             c \in ClassIds \ DOMAIN classChains, d \in DeptIds :
             createStudent(id, NameOf(id), r, c, d, StudentData)
                => Rejected("not found")
       /\ \A id \in DOMAIN classChains' \ DOMAIN classChains :
             /\ classChains'[id].departmentId \in DOMAIN departmentChains
             /\ Registered(classChains', id)
       /\ \A id \in DOMAIN studentChains' \ DOMAIN studentChains :
             /\ studentChains'[id].classId \in DOMAIN classChains
             /\ Registered(studentChains', id)]_vars

\* A child creation was refused for want of its parent: no class exists, so
\* no student can, while a department does
C17_Witness ==
    /\ lastError = "not found"
    /\ departmentChains # <<>>
    /\ DOMAIN departmentChains # DeptIds
    /\ classChains = <<>>
    /\ studentChains = <<>>

----------------------------------------------------------------------------
(* System validation *)

\* The ids of a level whose own validation reports invalid
InvalidIds(kind, ids) == {id \in ids : ~ValidateEntity(kind, id).isValid}

\* One level of the system report adds up and lists the invalid ids once
LevelAddsUp(kind, ids, total, valid, invalid) ==
    /\ total = Cardinality(ids)
    /\ valid + Len(invalid) = total
    /\ Range(invalid) = InvalidIds(kind, ids)
    /\ Cardinality(Range(invalid)) = Len(invalid)

\* C18: the system report is valid iff every department, class and student
\* validates; per level the valid count plus the number of listed invalid
\* ids is the total, and the listed ids are exactly the invalid entities.
C18_SystemReport ==
    LET r == validateFullSystem
    IN /\ r.isValid <=>
            /\ InvalidIds("department", DOMAIN departmentChains) = {}
            /\ InvalidIds("class", DOMAIN classChains) = {}
            /\ InvalidIds("student", DOMAIN studentChains) = {}
       /\ LevelAddsUp("department", DOMAIN departmentChains,
                      r.summary.totalDepartments, r.summary.validDepartments,
                      r.invalidEntities.departments)
       /\ LevelAddsUp("class", DOMAIN classChains,
                      r.summary.totalClasses, r.summary.validClasses,
                      r.invalidEntities.classes)
       /\ LevelAddsUp("student", DOMAIN studentChains,
                      r.summary.totalStudents, r.summary.validStudents,
                      r.invalidEntities.students)

\* A level that mixes verdicts, the invalid chain validated first: the first
\* department and the chains under it are listed as invalid, the second
\* department and the chains under it are counted as valid
C18_Witness ==
    LET r == validateFullSystem
    IN /\ ~r.isValid
       /\ r.summary.totalDepartments = Cardinality(SystemDeptIds)
       /\ r.summary.validDepartments = 1
       /\ r.invalidEntities.departments = <<order.departments[1]>>
       /\ r.summary.totalClasses = Cardinality(SystemClassIds)
       /\ r.summary.validClasses = 1
       /\ r.invalidEntities.classes = <<order.classes[1]>>
       /\ r.summary.validStudents = 1
       /\ r.invalidEntities.students = <<order.students[1]>>

----------------------------------------------------------------------------
(* Parent link and root marker *)

\* The genesis block is bound to the parent hash the chain has stored
LinkHolds(c, stored) == Len(c.chain) # 0 /\ c.chain[1].prev_hash = stored

\* Hashes a caller may pass as the parent's current hash
KnownHashes ==
    {RootMarker, EmptyHash}
    \cup UNION {{departmentChains[id].chain[i].hash :
                    i \in DOMAIN departmentChains[id].chain} :
                id \in DOMAIN departmentChains}
    \cup UNION {{classChains[id].chain[i].hash :
                    i \in DOMAIN classChains[id].chain} :
                id \in DOMAIN classChains}

ClassLinkError ==
    "Parent link validation failed - class not properly linked to department"

StudentLinkError ==
    "Parent link validation failed - student not properly linked to class"

\* C19: validateParentLink(h) is true iff the chain is non-empty and its
\* genesis prev_hash equals the stored parent hash, whatever h is; the
\* validation report carries the parent-link error exactly when that fails,
\* so a parent that has grown adds no error.
C19_ParentLinkIgnoresCurrent ==
    /\ \A id \in DOMAIN classChains :
          LET c == classChains[id]
              holds == LinkHolds(c, c.parentDepartmentHash)
          IN /\ \A h \in KnownHashes : ClassValidateParentLink(c, h) = holds
             /\ c.departmentId \in DOMAIN departmentChains =>
                   LET r == validateClassChain(id)
                   IN /\ r.details.parentLink = holds
                      /\ (ClassLinkError \in Range(r.errors)) <=> ~holds
    /\ \A id \in DOMAIN studentChains :
          LET c == studentChains[id]
              holds == LinkHolds(c, c.parentClassHash)
          IN /\ \A h \in KnownHashes : StudentValidateParentLink(c, h) = holds
             /\ c.classId \in DOMAIN classChains =>
                   LET r == validateStudentChain(id)
                   IN /\ r.details.parentLink = holds
                      /\ (StudentLinkError \in Range(r.errors)) <=> ~holds

\* A class whose department has grown since the class was created: the
\* current parent hash differs from the stored one and the report is clean
C19_Witness ==
    \E id \in DOMAIN classChains :
        LET c == classChains[id]
            parent == departmentChains[c.departmentId]
            r == validateClassChain(id)
        IN /\ getLatestBlock(parent).hash # c.parentDepartmentHash
           /\ ClassValidateParentLink(c, getLatestBlock(parent).hash)
           /\ r.isValid
           /\ r.errors = <<>>

GenesisError == "Genesis block has invalid prev_hash"

\* C20: a department chain as the registry created it has genesis prev_hash
\* "0", and a department whose genesis prev_hash is anything else is
\* reported invalid with the genesis error.
C20_RootMarker ==
    \A id \in DOMAIN departmentChains :
        LET c == departmentChains[id]
            r == validateDepartmentChain(id)
        IN /\ tampers = 0 => c.chain[1].prev_hash = RootMarker
           /\ c.chain[1].prev_hash # RootMarker =>
                 /\ ~r.isValid
                 /\ GenesisError \in Range(r.errors)
           /\ c.chain[1].prev_hash = RootMarker =>
                 GenesisError \notin Range(r.errors)

\* A department whose genesis prev_hash was overwritten and which is
\* otherwise sound: the genesis error is the only one reported
C20_Witness ==
    \E id \in DOMAIN departmentChains :
        LET c == departmentChains[id]
            r == validateDepartmentChain(id)
        IN /\ Len(c.chain) >= 2
           /\ c.chain[1].prev_hash # RootMarker
           /\ isChainValid(c)
           /\ ~r.isValid
           /\ r.errors = <<GenesisError>>

----------------------------------------------------------------------------
(* Persistence *)

\* C21: when a registry operation has changed the registry and returned
\* without error, the three persisted collections equal the serialization of
\* the whole in-memory registry.
C21_SnapshotAfterSuccess ==
    [][(/\ Registry' # Registry
        /\ lastError' = "none"
        /\ ~\E d \in Difficulties : initialize(d))
          => storage' = InMemory']_vars

\* An attendance record was appended and the students file holds the chain
C21_Witness ==
    /\ lastError = "none"
    /\ diskFault = NoFault
    /\ \E id \in DOMAIN studentChains :
          /\ Len(studentChains[id].chain) >= 2
          /\ \E i \in DOMAIN storage.students :
                storage.students[i] = StudentToJSON(studentChains[id])

\* C22: a mutation and its snapshot write are one transaction: when the write
\* fails the operation fails and the mutation is not in effect, so the
\* in-memory registry and the three persisted collections still agree.
C22_WriteTransaction == lastError = "write failed" => storage = InMemory

----------------------------------------------------------------------------
(* Requests run one at a time *)

\* The steps another client's request takes while a request runs: it
\* arrives and waits, and that is all
WaitsOrArrives(old, new) ==
    \/ new = old
    \/ old = Idle /\ new.pc = "pending"

\* C23: no two mutations interleave.  While the handler of a request is
\* between its checks and its response, the request of another client only
\* arrives and waits, and every change of the registry or of the files is a
\* step of the running request.  So when the request appends its block, the
\* checks it started with still pass (the date has no record, the student is
\* registered and not deleted, the id is absent or present as required), the
\* registry becomes what the service method run alone makes of it, the block
\* meets the difficulty of its chain, and the snapshot the request then
\* writes is that of the registry with its block.
C23_ChecksHoldAtAppend ==
    [][\A c \in Clients :
          /\ Running(calls[c])
                => /\ \A o \in Clients \ {c} :
                        /\ ~Running(calls[o])
                        /\ WaitsOrArrives(calls[o], calls'[o])
                   /\ (Registry' # Registry \/ storage' # storage)
                        => calls'[c] # calls[c]
          /\ (calls[c].pc = "mined" /\ calls'[c].pc = "pushed")
                => /\ Refusal(calls[c].request) = "none"
                   /\ Registry' = Effect(calls[c].request)
                   /\ MeetsTarget(calls[c].block, difficulty)
          /\ (calls[c].pc = "pushed" /\ calls'[c] = Idle)
                => /\ storage' = InMemory'
                   /\ lastError' = "none"]_vars

\* Two clients have sent the same attendance request: the handler of the
\* first has mined its block and not yet appended it, the request of the
\* second waits
C23_Witness ==
    /\ calls["a"].pc = "mined"
    /\ calls["a"].request.op = "markAttendance"
    /\ calls["b"].pc = "pending"
    /\ calls["b"].request = calls["a"].request

----------------------------------------------------------------------------
(* Chains are independent *)

\* The ids whose chain a step registers or changes
Changed(old, new) ==
    {id \in DOMAIN new : id \notin DOMAIN old \/ new[id] # old[id]}

\* Every chain registered before the step is registered after it
Kept(old, new) == DOMAIN old \subseteq DOMAIN new

\* C24: a step changes at most one chain of the registry; every other chain
\* keeps its blocks, its difficulty and its parent-link hash.  A step that
\* registers a child chain links its genesis block to the parent's latest hash
\* and leaves the parent chain as it was.
C24_OtherChainsUntouched ==
    [][/\ Kept(departmentChains, departmentChains')
       /\ Kept(classChains, classChains')
       /\ Kept(studentChains, studentChains')
       /\ Cardinality(Changed(departmentChains, departmentChains'))
            + Cardinality(Changed(classChains, classChains'))
            + Cardinality(Changed(studentChains, studentChains')) <= 1
       /\ \A id \in DOMAIN classChains' \ DOMAIN classChains :
             LET c == classChains'[id]
             IN /\ c.departmentId \in DOMAIN departmentChains
                /\ c.chain[1].prev_hash
                      = getLatestBlock(departmentChains[c.departmentId]).hash
                /\ c.parentDepartmentHash = c.chain[1].prev_hash
       /\ \A id \in DOMAIN studentChains' \ DOMAIN studentChains :
             LET c == studentChains'[id]
             IN /\ c.classId \in DOMAIN classChains
                /\ c.chain[1].prev_hash
                      = getLatestBlock(classChains[c.classId]).hash
                /\ c.parentClassHash = c.chain[1].prev_hash]_vars

\* A class was created under a department that had already grown, and the
\* department grew again afterwards: the class is linked to the block that
\* was the latest at its creation
C24_Witness ==
    \E id \in DOMAIN classChains :
        LET c == classChains[id]
        IN /\ c.departmentId \in DOMAIN departmentChains
           /\ Len(departmentChains[c.departmentId].chain) = 3
           /\ c.chain[1].prev_hash = departmentChains[c.departmentId].chain[2].hash

----------------------------------------------------------------------------
(* Validation only reports *)

\* C25: a validation request for one chain or for the whole system changes
\* no chain and leaves the persisted snapshot as it was, whatever its verdict.
C25_ValidationReadsOnly ==
    [][/\ \A id \in AuditDeptIds :
             validateChain("department", id)
                => UNCHANGED <<departmentChains, classChains, studentChains,
                               storage, miner, order>>
       /\ \A id \in AuditClassIds :
             validateChain("class", id)
                => UNCHANGED <<departmentChains, classChains, studentChains,
                               storage, miner, order>>
       /\ \A id \in AuditStudentIds :
             validateChain("student", id)
                => UNCHANGED <<departmentChains, classChains, studentChains,
                               storage, miner, order>>
       /\ validateSystem
             => UNCHANGED <<departmentChains, classChains, studentChains,
                            storage, miner, order>>]_vars

\* A validation has reported a tampered chain invalid and the tampered block
\* is still in memory, unlike the persisted one
C25_Witness ==
    /\ report.kind \in Kinds
    /\ ~report.result.isValid
    /\ tampers >= 1
    /\ storage # InMemory

\* A registry operation on a chain a validation has reported invalid, or the
\* creation of a child under it: the step that changed old into new (old is
\* <<>> for a chain the step registered) is accepted without error and has
\* appended one block
Accepted(key, old, new) ==
    (new # old /\ tampers' = tampers /\ key \in flagged)
        => /\ lastError' = "none"
           /\ Len(new.chain) = (IF old = <<>> THEN 0 ELSE Len(old.chain)) + 1
           /\ old # <<>> => SubSeq(new.chain, 1, Len(old.chain)) = old.chain

\* C26: a chain that a validation has reported invalid is reported invalid by
\* every later validation, whatever registry operations ran in between
\* (updates, deletions, attendance records, creations of children; no block
\* having been overwritten since), and such an operation on the chain, or
\* the creation of a child under it, is accepted without error and appends
\* its block and nothing else.
C26_NeverRepaired ==
    [][/\ (/\ report' # report
           /\ report'.kind \in Kinds
           /\ <<report'.kind, report'.id>> \in flagged)
          => ~report'.result.isValid
       /\ \A id \in DOMAIN departmentChains :
             Accepted(<<"department", id>>, departmentChains[id],
                      departmentChains'[id])
       /\ \A id \in DOMAIN classChains :
             Accepted(<<"class", id>>, classChains[id], classChains'[id])
       /\ \A id \in DOMAIN studentChains :
             Accepted(<<"student", id>>, studentChains[id], studentChains'[id])
       /\ \A id \in DOMAIN classChains' \ DOMAIN classChains :
             Accepted(<<"department", classChains'[id].departmentId>>, <<>>,
                      classChains'[id])
       /\ \A id \in DOMAIN studentChains' \ DOMAIN studentChains :
             Accepted(<<"class", studentChains'[id].classId>>, <<>>,
                      studentChains'[id])]_vars

\* The department's genesis block was overwritten and the department, its
\* class and its student were reported invalid; then the department was
\* deleted, a second class was created under it, the first class was
\* updated and the student got an attendance record; the validation of the
\* student that followed reported it invalid again
C26_Witness ==
    /\ difficulty = StudentPoWDifficulty
    /\ {<<"department", "d1">>, <<"class", "c1">>, <<"student", "s1">>}
            \subseteq flagged
    /\ HasDelete(departmentChains["d1"])
    /\ "c2" \in DOMAIN classChains
    /\ Len(classChains["c1"].chain) = 2
    /\ DatesOf(studentChains["s1"]) # {}
    /\ report.kind = "student"
    /\ report.id = "s1"
    /\ ~report.result.isValid

----------------------------------------------------------------------------
(* Block validity *)

\* Every block stored in the registry
AllBlocks ==
    UNION {Range(departmentChains[id].chain) : id \in DOMAIN departmentChains}
    \cup UNION {Range(classChains[id].chain) : id \in DOMAIN classChains}
    \cup UNION {Range(studentChains[id].chain) : id \in DOMAIN studentChains}

\* The five fields of a block that are hashed
HashedFields(b) ==
    <<b.index, b.prev_hash, b.timestamp, b.transactions, b.nonce>>

\* A block that has the five fields and no hash of its own
FromFields(f) ==
    [index |-> f[1], prev_hash |-> f[2], timestamp |-> f[3],
     transactions |-> f[4], nonce |-> f[5], hash |-> EmptyHash]

\* The block with one hashed field altered and the stored hash kept
Alterations(b) ==
    {[b EXCEPT !.index = @ + 1],
     [b EXCEPT !.prev_hash = IF @ = EmptyHash THEN RootMarker ELSE EmptyHash],
     [b EXCEPT !.timestamp = @ + 1],
     TamperBlock(b),
     [b EXCEPT !.transactions[1].type = "forged"],
     [b EXCEPT !.nonce = @ + 1]} \ {b}

\* C27: a stored block is valid iff its stored hash is the hash of its
\* current index, prev_hash, timestamp, transactions and nonce; the test
\* leaves the block as it is, and a valid block with any one hashed field
\* altered and its hash kept is not valid.
C27_BlockValidity ==
    \A b \in AllBlocks :
        /\ isValid(b) <=> b.hash = calculateHash(FromFields(HashedFields(b)))
        /\ isValid(b) => \A a \in Alterations(b) : ~isValid(a)
        /\ isValid(b) => b.hash = calculateHash(BlockFromJSON(BlockToJSON(b)))

\* The registry holds a block that needed mining and is valid next to a block
\* whose payload was altered in place and is not
C27_Witness ==
    /\ \E b \in AllBlocks : isValid(b) /\ b.nonce > 0
    /\ \E b \in AllBlocks :
          /\ ~isValid(b)
          /\ "tampered" \in DOMAIN b.transactions[1].data

----------------------------------------------------------------------------
(* One difficulty *)

\* The difficulty of every registered chain
ChainDifficulties ==
    {departmentChains[id].difficulty : id \in DOMAIN departmentChains}
    \cup {classChains[id].difficulty : id \in DOMAIN classChains}
    \cup {studentChains[id].difficulty : id \in DOMAIN studentChains}

\* C28: every registered chain, created or loaded from the persisted
\* snapshot, has the registry's configured difficulty.
C28_UniformDifficulty == ChainDifficulties \subseteq {difficulty}

----------------------------------------------------------------------------
(* Unknown ids *)

\* C29: an update, a delete or an attendance record for an id that is not
\* registered at its level fails with "not found" and changes neither the
\* chains nor the persisted snapshot.
C29_UnknownIdRejected ==
    [][/\ \A id \in DeptIds \ DOMAIN departmentChains :
             /\ \A p \in Patches :
                   updateDepartment(id, p) => Rejected("not found")
             /\ deleteDepartment(id) => Rejected("not found")
       /\ \A id \in ClassIds \ DOMAIN classChains :
             /\ \A p \in Patches : updateClass(id, p) => Rejected("not found")
             /\ deleteClass(id) => Rejected("not found")
       /\ \A id \in StudentIds \ DOMAIN studentChains :
             /\ \A p \in Patches : updateStudent(id, p) => Rejected("not found")
             /\ deleteStudent(id) => Rejected("not found")
             /\ \A dt \in Dates, st \in AttendanceStatuses :
                   markAttendance(id, AttendanceInput(id, dt, st))
                      => Rejected("not found")]_vars

\* Every department and class id is registered, so no create can miss its
\* parent: the request that was not found named the unregistered student
C29_Witness ==
    /\ lastError = "not found"
    /\ DOMAIN departmentChains = DeptIds
    /\ DOMAIN classChains = ClassIds
    /\ StudentIds \ DOMAIN studentChains # {}
    /\ storage = InMemory

----------------------------------------------------------------------------
(* The stages of one validation *)

\* The stage of validate*Chain that pushes the error: 1 chain check,
\* 2 parent link, 3 parent's verdict, 4 proof of work; 0 for the early exits
Stage(e) ==
    CASE e = "Chain integrity check failed" -> 1
      [] e \in {"Parent link validation failed - class not properly linked to department",
                "Parent link validation failed - student not properly linked to class"} -> 2
      [] e \in {"Parent department chain is invalid",
                "Parent class chain is invalid"} -> 3
      [] IncludesProofOfWork(e) -> 4
      [] OTHER -> 0

\* The errors of a report are in the order of the stages and the verdict is
\* invalid exactly when there is one; a stage's detail is recorded only after
\* the detail of the stage before it
OneVerdict(r) ==
    /\ r.isValid <=> r.errors = <<>>
    /\ \A i, j \in DOMAIN r.errors :
          i < j => Stage(r.errors[i]) <= Stage(r.errors[j])
    /\ "parentLink" \in DOMAIN r.details => "chainIntegrity" \in DOMAIN r.details
    /\ "proofOfWork" \in DOMAIN r.details => "parentLink" \in DOMAIN r.details

\* C30: the report of validating a class or a student lists its errors in the
\* order chain check, parent link, parent's verdict, and it is valid iff it
\* lists no error.
C30_StagesAndVerdict ==
    /\ \A id \in AuditIds : OneVerdict(validateClassChain(id))
    /\ \A id \in AuditIds : OneVerdict(validateStudentChain(id))

\* A class report that lists the chain-check error followed by an error of a
\* later stage, and a student report whose only errors come after the parent
\* link was checked
C30_Witness ==
    /\ \E id \in DOMAIN classChains :
          LET r == validateClassChain(id)
          IN /\ Len(r.errors) >= 2
             /\ Stage(r.errors[1]) = 1
             /\ Stage(r.errors[Len(r.errors)]) > 1
    /\ \E id \in DOMAIN studentChains :
          LET r == validateStudentChain(id)
          IN /\ ~r.isValid
             /\ Stage(r.errors[1]) = 3
             /\ r.details.parentLink

----------------------------------------------------------------------------
(* Mining *)

\* The block with its nonce set to n and its hash recomputed
WithNonce(b, n) ==
    LET m == [b EXCEPT !.nonce = n]
    IN [m EXCEPT !.hash = calculateHash(m)]

\* Some nonce from the block's own up to MaxNonce yields a qualifying hash
Minable(b, d) ==
    \E n \in b.nonce..MaxNonce : ~Unmined(WithNonce(b, n), d)

\* On return the stored hash is the hash of the fields and has d leading
\* zeros, and the result is what mineBlock computes in one piece
ReturnsMined ==
    miner.pc = "done" =>
        /\ isValid(miner.block)
        /\ Len(miner.block.hash.hex) >= miner.difficulty
        /\ \A i \in 1..miner.difficulty : miner.block.hash.hex[i] = 0
        /\ miner.block = mineBlock(miner.start, miner.difficulty)

\* A pass adds one to nonce and leaves index, prev_hash, timestamp and
\* transactions alone
OnePerAttempt ==
    MineAttempt =>
        /\ miner'.block.nonce = miner.block.nonce + 1
        /\ miner'.block.index = miner.block.index
        /\ miner'.block.prev_hash = miner.block.prev_hash
        /\ miner'.block.timestamp = miner.block.timestamp
        /\ miner'.block.transactions = miner.block.transactions
        /\ isValid(miner'.block)

\* C31: mineBlock returns only with the stored hash equal to the hash of the
\* block's fields and starting with d zeros; each pass adds exactly one to
\* nonce and changes no other hashed field; and it returns whenever some nonce
\* at or above the current one qualifies.
C31_Mining ==
    /\ []ReturnsMined
    /\ [][OnePerAttempt]_vars
    /\ (miner.pc = "loop" /\ Minable(miner.block, miner.difficulty)) ~> (miner.pc = "done")

\* mineBlock has returned after more than one pass of the loop
C31_Witness ==
    /\ miner.pc = "done"
    /\ miner.difficulty = 2
    /\ miner.block.nonce >= 2
    /\ miner.start.nonce = 0

----------------------------------------------------------------------------
(* Save and reload *)

\* C32: when the files hold the saved registry, a restart loads the same
\* registry: the same ids and, per chain, the same blocks, difficulty and
\* parent hash (the verdicts are functions of these).
C32_ReloadRoundTrip ==
    [][(storage = InMemory /\ \E d \in Difficulties : initialize(d))
          => /\ Registry' = Registry
             /\ Reloaded = Registry
             /\ order' = order]_vars

\* A registry with a mined student chain, loaded by a process that runs under
\* another difficulty than the one that saved it
C32_Witness ==
    /\ storage = InMemory
    /\ Reloaded = Registry
    /\ \E id \in DOMAIN studentChains :
          /\ studentChains[id].difficulty # difficulty
          /\ Len(studentChains[id].chain) >= 2
          /\ studentChains[id].chain[2].nonce > 0

----------------------------------------------------------------------------
(* Deleted entities *)

StatusOf(c) == getCurrentState(c).status

\* C33: through the handlers a class is created only under a department whose
\* current status is not deleted, a student only under a class whose current
\* status is not deleted, and a student whose current status is deleted gets
\* no attendance record, from a single or a bulk request; the refused single
\* requests change no chain.
C33_DeletedTakesNothing ==
    [][/\ \A id \in DOMAIN classChains' \ DOMAIN classChains :
            LET d == classChains'[id].departmentId
            IN d \in DOMAIN departmentChains
               /\ StatusOf(departmentChains[d]) # "deleted"
       /\ \A id \in DOMAIN studentChains' \ DOMAIN studentChains :
            LET c == studentChains'[id].classId
            IN c \in DOMAIN classChains /\ StatusOf(classChains[c]) # "deleted"
       /\ \A id \in DOMAIN studentChains :
            StatusOf(studentChains[id]) = "deleted"
            => getAttendanceHistory(studentChains'[id])
                  = getAttendanceHistory(studentChains[id])
       /\ lastError' \in {"400 deleted department", "400 deleted class",
                          "400 deleted"}
            => /\ Registry' = Registry
               /\ storage' = storage]_vars

\* The department, its class and the class's student are all deleted and the
\* last request, made under one of them, was refused for that reason
C33_Witness ==
    /\ lastError \in {"400 deleted department", "400 deleted class",
                      "400 deleted"}
    /\ \E id \in DOMAIN studentChains :
          /\ StatusOf(studentChains[id]) = "deleted"
          /\ StatusOf(classChains[studentChains[id].classId]) = "deleted"
          /\ StatusOf(departmentChains[studentChains[id].departmentId]) = "deleted"

----------------------------------------------------------------------------
(* Roll numbers *)

\* C34: no two students whose current status is active have the same current
\* roll number.
C34_UniqueActiveRolls ==
    \A a, b \in DOMAIN studentChains :
        LET sa == getCurrentState(studentChains[a])
            sb == getCurrentState(studentChains[b])
        IN (a # b /\ sa.status = "active" /\ sb.status = "active")
           => sa.rollNumber # sb.rollNumber

----------------------------------------------------------------------------
(* One attendance record per date *)

\* The blocks of a student chain that record attendance for the date
RecordsOn(c, date) ==
    {i \in 1..Len(c.chain) :
        /\ c.chain[i].transactions[1].type = "attendance"
        /\ c.chain[i].transactions[1].data.date = date}

\* The dates a record can carry: the dates a request can name, the date a
\* request without a date is given, and the dates the chain has on record
RecordDates(c) == RequestDates \cup {Today} \cup DatesOf(c)

\* C35: a student chain holds at most one attendance record per date, and
\* getAttendanceByDate returns that record, or null when the date has none.
C35_OneRecordPerDate ==
    \A id \in DOMAIN studentChains :
        \A date \in RecordDates(studentChains[id]) :
            LET c == studentChains[id]
                on == RecordsOn(c, date)
            IN /\ Cardinality(on) <= 1
               /\ on = {} => getAttendanceByDate(c, date) = Null
               /\ \A i \in on :
                    getAttendanceByDate(c, date)
                        = c.chain[i].transactions[1].data

\* A student with a record on the date a request without a date is given
\* and a record on a date a request named, both returned by date, and a last
\* request that marked nothing more
C35_Witness ==
    /\ lastError \in {"201 none marked", "400 duplicate"}
    /\ \E id \in DOMAIN studentChains :
          /\ Cardinality(RecordsOn(studentChains[id], Today)) = 1
          /\ getAttendanceByDate(studentChains[id], Today) # Null
          /\ \E date \in Dates :
                /\ Cardinality(RecordsOn(studentChains[id], date)) = 1
                /\ getAttendanceByDate(studentChains[id], date) # Null
          /\ getAttendanceByDate(studentChains[id], "16/11/2024") = Null

----------------------------------------------------------------------------
(* Referential integrity *)

MissingParent == {"Parent department not found", "Parent class not found"}

\* C36: in every state, restarts on the files a failed write left included,
\* every class chain names a registered department and every student chain a
\* registered class, and no validation of a registered class or student
\* reports a missing parent.
C36_ParentsRegistered ==
    /\ \A id \in DOMAIN classChains :
          /\ classChains[id].departmentId \in DOMAIN departmentChains
          /\ Range(validateClassChain(id).errors) \cap MissingParent = {}
    /\ \A id \in DOMAIN studentChains :
          /\ studentChains[id].classId \in DOMAIN classChains
          /\ Range(validateStudentChain(id).errors) \cap MissingParent = {}

----------------------------------------------------------------------------
(* A student's department *)

\* C37: the departmentId recorded for a student is the departmentId of the
\* class the student belongs to.
C37_DepartmentOfClass ==
    \A id \in DOMAIN studentChains :
        LET student == studentChains[id]
        IN student.classId \in DOMAIN classChains
           => student.departmentId = classChains[student.classId].departmentId

----------------------------------------------------------------------------
(* Payload kinds *)

\* The entries of the chain's blocks, genesis first
TypesOf(c) == [i \in 1..Len(c.chain) |-> c.chain[i].transactions[1].type]

\* One creation entry, at index 0 and labelled with the chain's kind; one
\* update, delete or attendance entry in every later block, attendance only
\* when the chain is a student's
Confined(c, kind) ==
    /\ \A i \in 1..Len(c.chain) : Len(c.chain[i].transactions) = 1
    /\ Len(c.chain) >= 1
    /\ TypesOf(c)[1] = kind
    /\ \A i \in 2..Len(c.chain) :
          TypesOf(c)[i] \in (IF kind = "student"
                             THEN {"update", "delete", "attendance"}
                             ELSE {"update", "delete"})

\* C38: each chain has exactly one creation entry, at index 0, labelled with
\* the chain's own entity kind; every later block carries exactly one update,
\* delete or attendance entry; attendance entries occur only in student chains.
C38_PayloadKinds ==
    /\ \A id \in DOMAIN departmentChains : Confined(departmentChains[id], "department")
    /\ \A id \in DOMAIN classChains : Confined(classChains[id], "class")
    /\ \A id \in DOMAIN studentChains : Confined(studentChains[id], "student")

----------------------------------------------------------------------------
(* The proof-of-work flag of a report *)

\* Every block of the chain, block 0 included, starts with the zeros the
\* validator of the level asks for
AllMeet(c, d) == \A i \in 1..Len(c.chain) : StartsWith(c.chain[i].hash.hex, Target(d))

\* details.proofOfWork === true
PoWFlag(r) == "proofOfWork" \in DOMAIN r.details /\ r.details.proofOfWork

\* C39: the proofOfWork flag of a report is true iff every block of the
\* validated chain meets the proof-of-work target, whatever the genesis,
\* chain-integrity, parent-link and cascade checks found, for department,
\* class and student reports alike.
C39_PoWFlag ==
    /\ \A id \in DOMAIN departmentChains :
          PoWFlag(validateDepartmentChain(id))
             <=> AllMeet(departmentChains[id], DeptPoWDifficulty)
    /\ \A id \in DOMAIN classChains :
          PoWFlag(validateClassChain(id))
             <=> AllMeet(classChains[id], ClassPoWDifficulty)
    /\ \A id \in DOMAIN studentChains :
          PoWFlag(validateStudentChain(id))
             <=> AllMeet(studentChains[id], StudentPoWDifficulty)

====
